---- MODULE Spec2Model ----
(***************************************************************************)
(* A model of the reduced-PHP compiler front end: the symbol table         *)
(* (backend/semantic/symbol_table.py), the parser wrapper and its error    *)
(* handler running on the PLY engine (parser.py) and the compile facade    *)
(* (backend/facade.py).                                                    *)
(***************************************************************************)
EXTENDS Integers, Sequences, FiniteSets, TLC

\* ------------------------------------------------------------------ bounds
\* Largest scope id enter_scope may allocate in the model.
MaxScopes == 2

\* Largest number of successful declare calls in the model.
MaxDecls == 3

\* Largest number of lexemes after the first one in an enumerated source.
MaxLen == 4

\* The same, for the sources of the specification with fairness.
MaxLiveLen == 3

VARIABLES
    \* SymbolTable fields
    scopes,          \* active scopes, scopes[Len] = current; a scope is an
                     \* insertion-ordered dict: a sequence of [key, sym]
    scopes_meta,     \* metadata of the active scopes, same indexing
    closed_scopes,   \* archive of [meta, symbols], in closing order
    next_scope_id,   \* _next_scope_id
    \* observation of the last SymbolTable call and its outcome
    tcall,
    \* history: for each allocated scope id (index id+1) the symbols whose
    \* declare call returned True, in call order
    declLog,
    \* history: the table fields as they were when the last call began
    tprev,
    \* parser.py module global _CURRENT_STATE: 0 is None, otherwise the number
    \* of the parse invocation whose ParserState it references
    cur,
    \* one record per parse invocation (ParserWrapper, its PLY parser, its
    \* lexer, its ParserState, its reporter and the position of its thread)
    th,
    \* lines printed by _default_reporter
    printed,
    \* the CompilationResult of CompilerFacade.compile, <<>> until it returns
    cres,
    \* one SemanticAnalyzer instance: its fields, its symbol table, and the
    \* record of what its last analyze call did
    an,
    \* one PhpLexer instance (lexer_php_reducido.py): the PLY lexer's lineno
    \* and the outcome of its tokenize calls
    lx

tableVars == <<scopes, scopes_meta, closed_scopes, next_scope_id, tcall, declLog, tprev>>

parseVars == <<cur, th, printed, cres>>

vars == <<scopes, scopes_meta, closed_scopes, next_scope_id, tcall, declLog, tprev,
          cur, th, printed, cres, an, lx>>

\* ------------------------------------------------------------ generic helpers
Last(s) == s[Len(s)]

Front(s) == SubSeq(s, 1, Len(s) - 1)

RECURSIVE SeqSum(_)
SeqSum(s) == IF s = <<>> THEN 0 ELSE Head(s) + SeqSum(Tail(s))

\* ===========================================================================
\* Objects after construction
\* ===========================================================================

\* SymbolTable() as a value: the global scope alone. A scope is its metadata
\* and an insertion-ordered dict from names to references into the heap of
\* Symbol objects.
NewSymtab ==
    [scopes |-> <<[meta |-> [name |-> "global", kind |-> "global", id |-> 0],
                   syms |-> <<>>]>>,
     closed |-> <<>>,
     next |-> 1]

\* SemanticAnalyzer(): heap holds the Symbol objects the instance created
\* (a reference is an index into it, 0 is None); runs, program, log and
\* fstack are history: the analyze calls made, the last program, the
\* events of the last call and the functions whose body is open.
SemanticAnalyzer__init__ ==
    [symtab |-> NewSymtab, errors |-> <<>>, current_function |-> 0,
     current_class |-> 0, snapshot_data |-> <<>>, func_params |-> <<>>,
     func_nodes |-> <<>>, heap |-> <<>>, ret |-> "None",
     runs |-> 0, program |-> <<>>, log |-> <<>>, fstack |-> <<>>]

\* PhpLexer(): lex.lex starts at line 1; calls, data, tokens, diags and steps
\* are the history of the tokenize calls made on the instance.
PhpLexer__post_init__ ==
    [lineno |-> 1, lexpos |-> 0, data |-> <<>>, calls |-> 0,
     tokens |-> <<>>, diags |-> <<>>, steps |-> <<>>,
     first_tokens |-> <<>>, first_data |-> <<>>]

NoAnalysis == an = SemanticAnalyzer__init__ /\ lx = PhpLexer__post_init__

\* ===========================================================================
\* SymbolTable
\* ===========================================================================

\* A type is kept with the flag the snapshot tests (dict/list/tuple or not)
\* and its printed form.
ScalarType(t) == [struct |-> FALSE, repr |-> t]

StructType(t) == [struct |-> TRUE, repr |-> t]

Symbol(name, kind, type, lineno) ==
    [name |-> name, kind |-> kind, type |-> type, lineno |-> lineno,
     value |-> "None", owner |-> "None"]

Names == {"a", "b"}

\* The symbols the calls of the model pass to declare.
SymbolsFor(name) ==
    IF name = "a"
    THEN {Symbol("a", "var", ScalarType("None"), 1),
          Symbol("a", "var", ScalarType("int"), 2)}
    ELSE {Symbol("b", "func", StructType("{'params': [], 'ret': None}"), 3)}

\* The (name, kind) pairs the calls of the model pass to enter_scope.
ScopeArgs == {<<"f", "function">>}

GlobalMeta == [name |-> "global", kind |-> "global", id |-> 0]

\* dict operations on an insertion-ordered scope
DictHas(scope, name) == \E i \in 1..Len(scope) : scope[i].key = name

DictGet(scope, name) ==
    LET i == CHOOSE i \in 1..Len(scope) : scope[i].key = name IN scope[i].sym

DictValues(scope) == [i \in 1..Len(scope) |-> scope[i].sym]

NoCall == [op |-> "none", name |-> "None", arg |-> <<>>, raised |-> FALSE,
           ok |-> FALSE, found |-> <<>>, snap |-> <<>>]

\* The table fields, as one value.
Table == [scopes |-> scopes, scopes_meta |-> scopes_meta,
          closed_scopes |-> closed_scopes, next |-> next_scope_id]

SymbolTable__init__ ==
    /\ scopes = << <<>> >>
    /\ scopes_meta = <<GlobalMeta>>
    /\ closed_scopes = <<>>
    /\ next_scope_id = 1
    /\ tcall = NoCall
    /\ declLog = << <<>> >>
    /\ tprev = [scopes |-> << <<>> >>, scopes_meta |-> <<GlobalMeta>>,
                closed_scopes |-> <<>>, next |-> 1]

\* Mutant of enter_scope_result: the id is taken from the stack depth.
enter_scope_result_depth_id(name, kind) ==
    LET meta == [name |-> name, kind |-> kind, id |-> Len(scopes)] IN
    [scopes |-> Append(scopes, <<>>),
     scopes_meta |-> Append(scopes_meta, meta),
     next |-> next_scope_id + 1]

\* enter_scope: the table after the call, as [scopes, scopes_meta, next]
enter_scope_result(name, kind) ==
    LET meta == [name |-> name, kind |-> kind, id |-> next_scope_id] IN
    [scopes |-> Append(scopes, <<>>),
     scopes_meta |-> Append(scopes_meta, meta),
     next |-> next_scope_id + 1]

enter_scope(name, kind) ==
    /\ next_scope_id <= MaxScopes
    /\ LET r == enter_scope_result(name, kind) IN
        /\ scopes' = r.scopes
        /\ scopes_meta' = r.scopes_meta
        /\ next_scope_id' = r.next
    /\ declLog' = Append(declLog, <<>>)
    /\ tcall' = [NoCall EXCEPT !.op = "enter_scope", !.name = name]
    /\ tprev' = Table
    /\ UNCHANGED <<closed_scopes, cur, th, printed, cres, an, lx>>

\* Mutant of exit_scope_result: the popped scope is dropped, not archived.
exit_scope_result_discard ==
    IF Len(scopes) = 1
    THEN [raised |-> TRUE, scopes |-> scopes, scopes_meta |-> scopes_meta,
          closed_scopes |-> closed_scopes]
    ELSE [raised |-> FALSE,
          scopes |-> Front(scopes),
          scopes_meta |-> Front(scopes_meta),
          closed_scopes |-> closed_scopes]

\* exit_scope: raises on the sole global scope, else pops into the archive
exit_scope_result ==
    IF Len(scopes) = 1
    THEN [raised |-> TRUE, scopes |-> scopes, scopes_meta |-> scopes_meta,
          closed_scopes |-> closed_scopes]
    ELSE [raised |-> FALSE,
          scopes |-> Front(scopes),
          scopes_meta |-> Front(scopes_meta),
          closed_scopes |-> Append(closed_scopes,
                                   [meta |-> Last(scopes_meta),
                                    symbols |-> Last(scopes)])]

exit_scope ==
    /\ LET r == exit_scope_result IN
        /\ scopes' = r.scopes
        /\ scopes_meta' = r.scopes_meta
        /\ closed_scopes' = r.closed_scopes
        /\ tcall' = [NoCall EXCEPT !.op = "exit_scope", !.raised = r.raised]
    /\ tprev' = Table
    /\ UNCHANGED <<next_scope_id, declLog, cur, th, printed, cres, an, lx>>

\* Mutant of declare_result: a binding in any active scope blocks the insert.
declare_result_any_scope(name, symbol) ==
    IF \E i \in 1..Len(scopes) : DictHas(scopes[i], name)
    THEN [ok |-> FALSE, scopes |-> scopes]
    ELSE [ok |-> TRUE,
          scopes |-> [scopes EXCEPT ![Len(scopes)] =
                          Append(Last(scopes), [key |-> name, sym |-> symbol])]]

\* declare: [ok, scopes] after the call
declare_result(name, symbol) ==
    LET scope == Last(scopes) IN
    IF DictHas(scope, name)
    THEN [ok |-> FALSE, scopes |-> scopes]
    ELSE [ok |-> TRUE,
          scopes |-> [scopes EXCEPT ![Len(scopes)] =
                          Append(scope, [key |-> name, sym |-> symbol])]]

declare(name, symbol) ==
    /\ SeqSum([i \in 1..Len(declLog) |-> Len(declLog[i])]) < MaxDecls
    /\ LET r == declare_result(name, symbol) IN
        /\ scopes' = r.scopes
        /\ tcall' = [NoCall EXCEPT !.op = "declare", !.name = name, !.ok = r.ok,
                                   !.arg = <<symbol>>]
        /\ declLog' = IF r.ok
                      THEN [declLog EXCEPT ![Last(scopes_meta).id + 1] =
                                Append(@, symbol)]
                      ELSE declLog
    /\ tprev' = Table
    /\ UNCHANGED <<scopes_meta, closed_scopes, next_scope_id, cur, th, printed, cres, an, lx>>

\* lookup: innermost to outermost over the active scopes; <<>> is None
RECURSIVE lookup_from(_, _)
lookup_from(i, name) ==
    IF i = 0 THEN <<>>
    ELSE IF DictHas(scopes[i], name) THEN <<DictGet(scopes[i], name)>>
    ELSE lookup_from(i - 1, name)

\* Mutant of lookup: the scopes are searched from the outermost inwards.
lookup_outermost_first(name) ==
    IF \E i \in 1..Len(scopes) : DictHas(scopes[i], name)
    THEN LET i == CHOOSE i \in 1..Len(scopes) :
                      /\ DictHas(scopes[i], name)
                      /\ \A j \in 1..(i - 1) : ~DictHas(scopes[j], name)
         IN <<DictGet(scopes[i], name)>>
    ELSE <<>>

lookup(name) == lookup_from(Len(scopes), name)

lookup_current(name) ==
    IF DictHas(Last(scopes), name) THEN <<DictGet(Last(scopes), name)>> ELSE <<>>

Lookup(name) ==
    /\ tcall' = [NoCall EXCEPT !.op = "lookup", !.name = name, !.found = lookup(name)]
    /\ tprev' = Table
    /\ UNCHANGED <<scopes, scopes_meta, closed_scopes, next_scope_id, declLog,
                   cur, th, printed, cres, an, lx>>

LookupCurrent(name) ==
    /\ tcall' = [NoCall EXCEPT !.op = "lookup_current", !.name = name,
                               !.found = lookup_current(name)]
    /\ tprev' = Table
    /\ UNCHANGED <<scopes, scopes_meta, closed_scopes, next_scope_id, declLog,
                   cur, th, printed, cres, an, lx>>

\* snapshot
FlattenType(t) == IF t.struct THEN ScalarType(t.repr) ELSE t

SerializeSymbol(sym) ==
    [name |-> sym.name, kind |-> sym.kind, type |-> FlattenType(sym.type),
     value |-> sym.value, owner |-> sym.owner, lineno |-> sym.lineno]

serialize_scope(scope, meta) ==
    [scope |-> meta.id, name |-> meta.name, kind |-> meta.kind,
     symbols |-> [i \in 1..Len(scope) |-> SerializeSymbol(DictValues(scope)[i])]]

\* list.sort(key = scope id): a stable insertion sort
RECURSIVE InsertByScope(_, _)
InsertByScope(sorted, e) ==
    IF sorted = <<>> THEN <<e>>
    ELSE IF Last(sorted).scope <= e.scope THEN Append(sorted, e)
    ELSE Append(InsertByScope(Front(sorted), e), Last(sorted))

RECURSIVE SortByScope(_)
SortByScope(s) ==
    IF s = <<>> THEN <<>> ELSE InsertByScope(SortByScope(Front(s)), Last(s))

\* Mutant of snapshot_of: the final sort by scope id is missing.
snapshot_of_unsorted(t) ==
    LET closed == [i \in 1..Len(t.closed_scopes) |->
                      serialize_scope(t.closed_scopes[i].symbols,
                                      t.closed_scopes[i].meta)]
        active == [i \in 1..Len(t.scopes) |->
                      serialize_scope(t.scopes[i], t.scopes_meta[i])]
    IN closed \o active

snapshot_of(t) ==
    LET closed == [i \in 1..Len(t.closed_scopes) |->
                      serialize_scope(t.closed_scopes[i].symbols,
                                      t.closed_scopes[i].meta)]
        active == [i \in 1..Len(t.scopes) |->
                      serialize_scope(t.scopes[i], t.scopes_meta[i])]
    IN SortByScope(closed \o active)

snapshot == snapshot_of(Table)

Snapshot ==
    /\ tcall' = [NoCall EXCEPT !.op = "snapshot", !.snap = snapshot]
    /\ tprev' = Table
    /\ UNCHANGED <<scopes, scopes_meta, closed_scopes, next_scope_id, declLog,
                   cur, th, printed, cres, an, lx>>

TableNext ==
    \/ \E a \in ScopeArgs : enter_scope(a[1], a[2])
    \/ exit_scope
    \/ \E n \in Names : \E s \in SymbolsFor(n) : declare(n, s)
    \/ \E n \in Names : Lookup(n)
    \/ \E n \in Names : LookupCurrent(n)
    \/ Snapshot

\* No parse invocation exists while the table is exercised on its own.
NoParse ==
    /\ cur = 0
    /\ th = <<>>
    /\ printed = <<>>
    /\ cres = <<>>

TableInit == SymbolTable__init__ /\ NoParse /\ NoAnalysis

SpecTable == TableInit /\ [][TableNext]_vars

\* ---------------------------------------------------------------------------
\* Claims about the SymbolTable (checked under SpecTable)
\* ---------------------------------------------------------------------------

\* C6: exit_scope with only the global scope active raises and leaves the
\* active stack, the archive and the next scope id unchanged; with more than
\* one active scope it removes exactly the innermost scope and appends it,
\* with its metadata and all its symbols, to the end of the archive.
C6_ExitScope ==
    tcall.op = "exit_scope" =>
        IF Len(tprev.scopes) = 1
        THEN /\ tcall.raised
             /\ Table = tprev
        ELSE /\ ~tcall.raised
             /\ scopes = Front(tprev.scopes)
             /\ scopes_meta = Front(tprev.scopes_meta)
             /\ Len(closed_scopes) = Len(tprev.closed_scopes) + 1
             /\ Front(closed_scopes) = tprev.closed_scopes
             /\ Last(closed_scopes).meta = Last(tprev.scopes_meta)
             /\ Last(closed_scopes).symbols = Last(tprev.scopes)
             /\ next_scope_id = tprev.next

\* C6 witness: a scope holding two symbols has just been popped into an
\* archive that already held a scope.
C6_Witness ==
    /\ tcall.op = "exit_scope"
    /\ ~tcall.raised
    /\ Len(closed_scopes) = 2
    /\ Len(Last(closed_scopes).symbols) = 2

\* every id held by the table, active scopes first, then the archive
AllScopeIds(t) ==
    [i \in 1..Len(t.scopes_meta) |-> t.scopes_meta[i].id]
        \o [i \in 1..Len(t.closed_scopes) |-> t.closed_scopes[i].meta.id]

\* C7: the ids of all active and archived scopes are pairwise distinct, the
\* global scope has id 0, every enter_scope allocates an id strictly greater
\* than every id allocated before it, and the ids on the active stack
\* strictly increase from outermost to innermost.
C7_ScopeIds ==
    LET ids == AllScopeIds(Table) IN
    /\ \A i, j \in 1..Len(ids) : i # j => ids[i] # ids[j]
    /\ scopes_meta[1].id = 0
    /\ \A i \in 1..(Len(scopes_meta) - 1) : scopes_meta[i].id < scopes_meta[i + 1].id
    /\ tcall.op = "enter_scope" =>
           LET before == AllScopeIds(tprev) IN
           /\ \A i \in 1..Len(before) : before[i] < Last(scopes_meta).id
           /\ Last(scopes_meta).id >= tprev.next
           /\ next_scope_id > Last(scopes_meta).id

\* C7 witness: a scope was closed and a later enter_scope got a fresh id
\* while the closed one sits in the archive.
C7_Witness ==
    /\ tcall.op = "enter_scope"
    /\ Len(closed_scopes) = 1
    /\ Len(scopes) = 2
    /\ Last(scopes_meta).id = 2

\* C8: declare returns true and binds the name in the innermost active scope
\* when the name is not bound there, even if an outer scope binds it; it
\* returns false and leaves the existing binding unchanged when the name is
\* bound in the innermost scope; outer scopes, archive and ids are unchanged.
C8_Declare ==
    tcall.op = "declare" =>
        LET old == Last(tprev.scopes)
            sym == tcall.arg[1]
        IN
        /\ tcall.ok = ~DictHas(old, tcall.name)
        /\ tcall.ok => /\ Last(scopes) = Append(old, [key |-> tcall.name, sym |-> sym])
                       /\ lookup_current(tcall.name) = <<sym>>
        /\ ~tcall.ok => /\ Last(scopes) = old
                        /\ lookup_current(tcall.name) = <<DictGet(old, tcall.name)>>
        /\ Len(scopes) = Len(tprev.scopes)
        /\ Front(scopes) = Front(tprev.scopes)
        /\ scopes_meta = tprev.scopes_meta
        /\ closed_scopes = tprev.closed_scopes
        /\ next_scope_id = tprev.next

\* C8 witness: a declare succeeded in an inner scope although the global
\* scope binds the same name to another symbol.
C8_Witness ==
    /\ tcall.op = "declare"
    /\ tcall.ok
    /\ Len(scopes) = 2
    /\ DictHas(scopes[1], tcall.name)
    /\ DictGet(scopes[1], tcall.name) # tcall.arg[1]

\* The binding lookup is specified to return: that of the innermost active
\* scope binding the name, nothing when none binds it.
InnermostBinding(name) ==
    LET binders == {i \in 1..Len(scopes) : DictHas(scopes[i], name)} IN
    IF binders = {} THEN <<>>
    ELSE LET top == CHOOSE i \in binders : \A j \in binders : j <= i
         IN <<DictGet(scopes[top], name)>>

\* C9: lookup returns the symbol bound in the innermost active scope that
\* binds the name and nothing when no active scope binds it (a symbol living
\* only in an archived scope is never returned); lookup_current returns the
\* innermost scope's binding and nothing when only outer scopes bind the
\* name; neither call changes the table.
C9_Lookup ==
    /\ \A n \in Names :
          /\ lookup(n) = InnermostBinding(n)
          /\ lookup_current(n) =
                 (IF DictHas(Last(scopes), n)
                  THEN <<DictGet(Last(scopes), n)>> ELSE <<>>)
    /\ tcall.op = "lookup" =>
          /\ tcall.found = InnermostBinding(tcall.name)
          /\ Table = tprev
    /\ tcall.op = "lookup_current" =>
          /\ tcall.found = (IF DictHas(Last(scopes), tcall.name)
                            THEN InnermostBinding(tcall.name) ELSE <<>>)
          /\ Table = tprev

\* C9 witness: lookup returned the inner of two different bindings of one
\* name while a third scope binding it is archived.
C9_Witness ==
    /\ tcall.op = "lookup"
    /\ Len(scopes) = 2
    /\ DictHas(scopes[1], tcall.name)
    /\ DictHas(scopes[2], tcall.name)
    /\ tcall.found # <<DictGet(scopes[1], tcall.name)>>
    /\ Len(closed_scopes) = 1
    /\ DictHas(closed_scopes[1].symbols, tcall.name)

\* C10: snapshot holds exactly one entry per scope ever created (ids 0 up to
\* the last allocated id), in strictly ascending id order, each listing
\* exactly the symbols declared in that scope in declaration order; enter
\* and exit calls never remove or alter a closed scope's entry, and snapshot
\* does not modify the table.
C10_Snapshot ==
    LET snap == snapshot
        old == snapshot_of(tprev)
    IN
    /\ Len(snap) = next_scope_id
    /\ \A i \in 1..Len(snap) :
          /\ snap[i].scope = i - 1
          /\ snap[i].symbols =
                 [k \in 1..Len(declLog[i]) |-> SerializeSymbol(declLog[i][k])]
    /\ tcall.op = "snapshot" => (tcall.snap = snap /\ Table = tprev)
    /\ tcall.op \in {"enter_scope", "exit_scope"} =>
          \A c \in 1..Len(tprev.closed_scopes) :
              LET id == tprev.closed_scopes[c].meta.id IN
              /\ id + 1 <= Len(snap)
              /\ id + 1 <= Len(old)
              /\ snap[id + 1] = old[id + 1]

\* C10 witness: a snapshot was taken while the scope with id 1 is archived
\* with a symbol and the scope with id 2 is open.
C10_Witness ==
    /\ tcall.op = "snapshot"
    /\ Len(tcall.snap) = 3
    /\ Len(closed_scopes) = 1
    /\ closed_scopes[1].meta.id = 1
    /\ Len(closed_scopes[1].symbols) > 0
    /\ Len(tcall.snap[1].symbols) = 2

\* ===========================================================================
\* Lexer: the token source the parser pulls from
\* ===========================================================================

\* A source is a sequence of lexemes, one per line, so that a token's line
\* number is its position in the source.

\* The rule that matches a lexeme; "@" is matched by no rule (t_error).
TokenType(lexeme) ==
    CASE lexeme = "<?php" -> "PHP_OPEN"
      [] lexeme = "?>" -> "PHP_CLOSE"
      [] lexeme = ";" -> "SEMICOLON"
      [] lexeme = "{" -> "LBRACE"
      [] lexeme = "}" -> "RBRACE"
      [] lexeme = "echo" -> "ECHO"
      [] lexeme \in {"$a", "$b"} -> "VARIABLE"
      [] OTHER -> "error"

MakeToken(src, i) == [type |-> TokenType(src[i]), value |-> src[i], lineno |-> i]

\* lexer.token() from position pos (the number of lexemes already scanned):
\* the next token (<<>> is None, at the end of the input), the new position
\* and the number of characters t_error skipped on the way.
RECURSIVE LexerToken(_, _)
LexerToken(src, pos) ==
    IF pos >= Len(src) THEN [tok |-> <<>>, pos |-> pos, bad |-> 0]
    ELSE IF TokenType(src[pos + 1]) = "error"
         THEN LET r == LexerToken(src, pos + 1) IN [r EXCEPT !.bad = @ + 1]
         ELSE [tok |-> <<MakeToken(src, pos + 1)>>, pos |-> pos + 1, bad |-> 0]

\* PhpLexer.tokenize: every token of the source, in order
RECURSIVE tokenize_from(_, _)
tokenize_from(src, pos) ==
    LET r == LexerToken(src, pos) IN
    IF r.tok = <<>> THEN <<>> ELSE r.tok \o tokenize_from(src, r.pos)

tokenize(src) == tokenize_from(src, 0)

\* ===========================================================================
\* Grammar: the PLY LR engine on the productions of parser.py
\* ===========================================================================

\* The parse stack holds grammar symbols with their values. Reductions that
\* consume no input are taken as soon as their handle is complete, so the
\* stack is kept in reduced form; PLY takes them when it sees the next token,
\* before it shifts or rejects it.

EndToken == [type |-> "$end", value |-> "", lineno |-> 0]

\* AST nodes
EmptyStmt == [node |-> "EmptyStmt", name |-> "", stmts |-> <<>>]

VarDeclStmt(name) == [node |-> "VarDeclStmt", name |-> name, stmts |-> <<>>]

EchoStmt(name) == [node |-> "EchoStmt", name |-> name, stmts |-> <<>>]

Block(stmts) == [node |-> "Block", name |-> "", stmts |-> stmts]

Program(items) == [node |-> "Program", name |-> "", stmts |-> items]

Entry(sym, val) == [sym |-> sym, val |-> val]

TopSym(stack) == IF stack = <<>> THEN "$bottom" ELSE Last(stack).sym

\* tokens that begin a stmt
StmtStart == {"SEMICOLON", "ECHO", "LBRACE", "VARIABLE"}

\* The token types with an action (shift, reduce or accept) in the state the
\* stack is in; every other type is a syntax error there.
Expected(stack) ==
    LET top == TopSym(stack) IN
    CASE top = "$bottom" -> {"PHP_OPEN"}
      [] top \in {"PHP_OPEN", "top_list"} -> StmtStart \cup {"PHP_CLOSE"}
      [] top \in {"LBRACE", "stmts"} -> StmtStart \cup {"RBRACE"}
      [] top = "ECHO" -> {"VARIABLE"}
      [] top = "expr_list" -> {"SEMICOLON"}
      [] top = "VARIABLE" -> {"SEMICOLON"}
      [] top = "program" -> {"$end"}
      [] OTHER -> {}

\* p_top_list / p_stmts: a finished stmt joins the list of its container
AddStmt(stack, stmt) ==
    LET top == TopSym(stack) IN
    CASE top = "PHP_OPEN" -> Append(stack, Entry("top_list", <<stmt>>))
      [] top = "LBRACE" -> Append(stack, Entry("stmts", <<stmt>>))
      [] OTHER -> [stack EXCEPT ![Len(stack)].val = Append(@, stmt)]

DropLast(stack, n) == SubSeq(stack, 1, Len(stack) - n)

\* The stack after shifting an expected token and reducing what it completes.
Shift(stack, tok) ==
    LET top == TopSym(stack) IN
    CASE tok.type = "PHP_OPEN" -> Append(stack, Entry("PHP_OPEN", <<>>))
      [] tok.type = "ECHO" -> Append(stack, Entry("ECHO", <<>>))
      [] tok.type = "LBRACE" -> Append(stack, Entry("LBRACE", <<>>))
      [] tok.type = "VARIABLE" ->
            \* p_primary .. p_expr_list after ECHO; otherwise kept for p_varbind
            IF top = "ECHO"
            THEN Append(stack, Entry("expr_list", <<tok.value>>))
            ELSE Append(stack, Entry("VARIABLE", <<tok.value>>))
      [] tok.type = "SEMICOLON" ->
            \* p_stmt, p_echo_stmt, p_vardecl
            IF top = "expr_list"
            THEN AddStmt(DropLast(stack, 2), EchoStmt(Last(stack).val[1]))
            ELSE IF top = "VARIABLE"
            THEN AddStmt(DropLast(stack, 1), VarDeclStmt(Last(stack).val[1]))
            ELSE AddStmt(stack, EmptyStmt)
      [] tok.type = "RBRACE" ->
            \* p_block with p_stmts_opt
            IF top = "LBRACE"
            THEN AddStmt(DropLast(stack, 1), Block(<<>>))
            ELSE AddStmt(DropLast(stack, 2), Block(Last(stack).val))
      [] tok.type = "PHP_CLOSE" ->
            \* p_program with p_top_list_opt
            IF top = "PHP_OPEN"
            THEN <<Entry("program", <<Program(<<>>)>>)>>
            ELSE <<Entry("program", <<Program(Last(stack).val)>>)>>
      [] OTHER -> stack

\* _RECOVERY_TOKENS
RECOVERY_TOKENS == {"SEMICOLON", "RBRACE", "PHP_CLOSE"}

\* ===========================================================================
\* ParserWrapper.parse and the error handler p_error
\* ===========================================================================

\* A parse invocation: a ParserWrapper with its PLY parser (stack, lookahead,
\* errorcount, errorok), the lexer handed to parse (src, lexpos, lex_errors),
\* the ParserState it creates (state_errors), its reporter (reported) and
\* the locals of its thread (pc, errtoken, rec_parser, result, ret).
\* perr_log, rec_from, discarded and resumed are history: the tokens p_error
\* was called with, where the lexer stood when the last recovery began, the
\* tokens that recovery read, and whether the engine has just resumed.
NewSession ==
    [pc |-> "start", src |-> <<>>, lexpos |-> 0, lex_errors |-> 0,
     stack |-> <<>>, lookahead |-> <<>>, errorcount |-> 0, errorok |-> TRUE,
     errtoken |-> <<>>, rec_parser |-> 0, state_errors |-> <<>>,
     reported |-> <<>>, errors |-> <<>>, error_count |-> 0,
     result |-> <<>>, ret |-> <<>>,
     perr_log |-> <<>>, rec_from |-> 0, discarded |-> <<>>, resumed |-> FALSE]

\* The shared module state and the invocations, as one value.
World == [cur |-> cur, th |-> th, printed |-> printed]

\* PLY's error_count: the shifts needed before errors are reported again
ERROR_COUNT == 3

SyntaxErrorInfo(tok) ==
    [message |-> <<"Error de sintaxis en linea", tok.lineno>>,
     token_type |-> tok.type, token_value |-> tok.value, lineno |-> tok.lineno]

\* parse, lines 551-554: a new ParserState becomes _CURRENT_STATE and the
\* PLY engine starts on the lexer's input.
parse_begin(w, t, source) ==
    [w EXCEPT !.cur = t,
              !.th[t] = [@ EXCEPT !.pc = "loop", !.state_errors = <<>>,
                                  !.src = source,
                                  !.lexpos = 0, !.stack = <<>>,
                                  !.lookahead = <<>>, !.errorcount = 0]]

\* One turn of the engine's loop: read the lookahead if there is none, then
\* shift it (with the reductions it completes), accept, or enter error
\* handling.
ply_step(w, t) ==
    LET c == w.th[t]
        f == IF c.lookahead = <<>>
             THEN LexerToken(c.src, c.lexpos)
             ELSE [tok |-> c.lookahead, pos |-> c.lexpos, bad |-> 0]
        la == IF f.tok = <<>> THEN EndToken ELSE f.tok[1]
        c1 == [c EXCEPT !.lexpos = f.pos, !.lex_errors = @ + f.bad,
                        !.resumed = FALSE]
    IN
    IF la.type \in Expected(c.stack)
    THEN IF la.type = "$end"
         THEN [w EXCEPT !.th[t] = [c1 EXCEPT !.result = c.stack[1].val,
                                             !.lookahead = <<la>>,
                                             !.pc = "finish"]]
         ELSE [w EXCEPT !.th[t] =
                  [c1 EXCEPT !.stack = Shift(c.stack, la),
                             !.lookahead = <<>>,
                             !.errorcount = IF @ > 0 THEN @ - 1 ELSE 0]]
    ELSE IF c.errorcount = 0 \/ c.errorok
         THEN [w EXCEPT !.th[t] =
                  [c1 EXCEPT !.errorcount = ERROR_COUNT,
                             !.errorok = FALSE,
                             !.lookahead = <<la>>,
                             !.errtoken = IF la.type = "$end" THEN <<>> ELSE <<la>>,
                             !.perr_log = IF la.type = "$end" THEN @ ELSE Append(@, la),
                             !.pc = "p_error"]]
         ELSE [w EXCEPT !.th[t] =
                  [c1 EXCEPT !.errorcount = ERROR_COUNT,
                             !.lookahead = <<la>>,
                             !.pc = "ply_recover"]]

\* _emit_parser_message, lines 50-54
emit_parser_message(w, t, message) ==
    IF w.cur # 0
    THEN [w EXCEPT !.th[w.cur].reported = Append(@, message)]
    ELSE [w EXCEPT !.printed = Append(@, message)]

\* p_error, lines 517-524: nothing at all without a token, else the message
p_error(w, t) ==
    LET c == w.th[t] IN
    IF c.errtoken = <<>>
    THEN [w EXCEPT !.th[t].pc = "p_error_ret"]
    ELSE LET w1 == emit_parser_message(w, t, SyntaxErrorInfo(c.errtoken[1]).message)
         IN [w1 EXCEPT !.th[t].pc = "register"]

\* Mutant of register_syntax_error: only the first error is kept.
register_syntax_error_first_only(w, info) ==
    IF w.cur # 0 /\ w.th[w.cur].state_errors = <<>>
    THEN [w EXCEPT !.th[w.cur].state_errors = Append(@, info)]
    ELSE w

\* _register_syntax_error, lines 45-47
register_syntax_error(w, info) ==
    IF w.cur # 0
    THEN [w EXCEPT !.th[w.cur].state_errors = Append(@, info)]
    ELSE w

\* p_error, lines 525-532
p_error_register(w, t) ==
    LET w1 == register_syntax_error(w, SyntaxErrorInfo(w.th[t].errtoken[1]))
    IN [w1 EXCEPT !.th[t].pc = "recover"]

\* _recover_parser, lines 59-62: returns at once without a current state,
\* else takes the PLY parser that state names
recover_begin(w, t) ==
    IF w.cur = 0
    THEN [w EXCEPT !.th[t].pc = "p_error_ret"]
    ELSE [w EXCEPT !.th[t] = [@ EXCEPT !.pc = "recover_token",
                                       !.rec_parser = w.cur,
                                       !.rec_from = w.th[w.cur].lexpos,
                                       !.discarded = <<>>]]

\* Mutant of IsRecoveryToken: only the semicolon synchronizes.
IsRecoveryToken_semicolon_only(type) == type = "SEMICOLON"

IsRecoveryToken(type) == type \in RECOVERY_TOKENS

\* _recover_parser, lines 63-68: one turn of the loop, reading one token
\* from the lexer of the parser taken in recover_begin
recover_token(w, t) ==
    LET p == w.th[t].rec_parser
        r == LexerToken(w.th[p].src, w.th[p].lexpos)
        w1 == [w EXCEPT !.th[p].lexpos = r.pos, !.th[p].lex_errors = @ + r.bad]
    IN
    IF r.tok = <<>>
    THEN [w1 EXCEPT !.th[t].pc = "errok"]
    ELSE [w1 EXCEPT !.th[t].discarded = Append(@, r.tok[1]),
                    !.th[t].pc = IF IsRecoveryToken(r.tok[1].type)
                                 THEN "errok" ELSE "recover_token"]

\* _recover_parser, line 69: parser.errok()
errok(w, t) ==
    LET p == w.th[t].rec_parser IN
    [[w EXCEPT !.th[p].errorok = TRUE] EXCEPT !.th[t].pc = "p_error_ret"]

\* Back in the engine after p_error: it resumes with a fresh lookahead when
\* its errorok flag is set, else it goes on to its own recovery.
p_error_ret(w, t) ==
    IF w.th[t].errorok
    THEN [w EXCEPT !.th[t] = [@ EXCEPT !.lookahead = <<>>, !.errtoken = <<>>,
                                       !.resumed = TRUE, !.pc = "loop"]]
    ELSE [w EXCEPT !.th[t].pc = "ply_recover"]

\* The engine's own recovery. The grammar has no error productions, so the
\* error symbol unwinds the whole stack and the offending token is dropped;
\* at the end of the input the parse is given up with no result.
ply_recover(w, t) ==
    LET c == w.th[t] IN
    IF c.lookahead[1].type = "$end"
    THEN [w EXCEPT !.th[t] = [@ EXCEPT !.result = <<>>, !.pc = "finish"]]
    ELSE [w EXCEPT !.th[t] = [@ EXCEPT !.stack = <<>>, !.lookahead = <<>>,
                                       !.pc = "loop"]]

\* parse, line 556: finally, _set_parser_state(None)
parse_finally(w, t) == [w EXCEPT !.cur = 0, !.th[t].pc = "collect"]

\* parse, lines 558-562
parse_return(w, t) ==
    LET c == w.th[t]
        n == Len(c.state_errors)
    IN [w EXCEPT !.th[t] = [@ EXCEPT !.errors = c.state_errors,
                                     !.error_count = n,
                                     !.ret = IF n # 0 THEN <<>> ELSE c.result,
                                     !.pc = "done"]]

\* --------------------------------------------------------------- actions
Apply(w) ==
    /\ cur' = w.cur
    /\ th' = w.th
    /\ printed' = w.printed
    /\ UNCHANGED <<scopes, scopes_meta, closed_scopes, next_scope_id, tcall,
                   declLog, tprev, cres, an, lx>>

At(t, pc) == th[t].pc = pc

ParseBegin(t, inputs) ==
    /\ At(t, "start")
    /\ \E source \in inputs : Apply(parse_begin(World, t, source))

PlyStep(t) == At(t, "loop") /\ Apply(ply_step(World, t))

PError(t) == At(t, "p_error") /\ Apply(p_error(World, t))

PErrorRegister(t) == At(t, "register") /\ Apply(p_error_register(World, t))

RecoverBegin(t) == At(t, "recover") /\ Apply(recover_begin(World, t))

RecoverToken(t) == At(t, "recover_token") /\ Apply(recover_token(World, t))

Errok(t) == At(t, "errok") /\ Apply(errok(World, t))

PErrorRet(t) == At(t, "p_error_ret") /\ Apply(p_error_ret(World, t))

PlyRecover(t) == At(t, "ply_recover") /\ Apply(ply_recover(World, t))

ParseFinally(t) == At(t, "finish") /\ Apply(parse_finally(World, t))

ParseReturn(t) == At(t, "collect") /\ Apply(parse_return(World, t))

\* ===========================================================================
\* SemanticAnalyzer (backend/semantic/semantic_analyzer.py)
\* ===========================================================================

\* ------------------------------------------------- further nodes of the AST
\* A type is "int", "float", "string", ...; "None" is the unknown type. A
\* literal node carries the type of its value, and stands for that value.
Var(name) == [node |-> "Var", name |-> name]
NumberLit(type) == [node |-> "NumberLit", name |-> type]
StringLit == [node |-> "StringLit", name |-> "string"]
Binary(op, left, right) == [node |-> "Binary", name |-> op, left |-> left, right |-> right]
Call(fname, args) == [node |-> "Call", name |-> fname, args |-> args]
ExprStmt(expr) == [node |-> "ExprStmt", name |-> "", expr |-> expr]
ReturnStmt(expr) == [node |-> "ReturnStmt", name |-> "", expr |-> expr]
VarDeclInit(name, init) ==
    [node |-> "VarDeclStmt", name |-> name, stmts |-> <<>>, init |-> init]
Param(name, default) == [node |-> "Param", name |-> name, default |-> default]
FunctionDecl(name, params, body) ==
    [node |-> "FunctionDecl", name |-> name, params |-> params, body |-> body]
ClassDecl(name, members) == [node |-> "ClassDecl", name |-> name, members |-> members]
BoolLit == [node |-> "BoolLit", name |-> "bool"]
NullLit == [node |-> "NullLit", name |-> "null"]
\* A qualified name; name is "::".join(parts)
Name(qname) == [node |-> "Name", name |-> qname]
ArrayLit(values) == [node |-> "ArrayLit", name |-> "array", args |-> values]
\* An assignment to the variable called name
Assign(name, value) == [node |-> "Assign", name |-> name, value |-> value]
IfStmt(cond, then) == [node |-> "IfStmt", name |-> "", cond |-> cond, body |-> then]
WhileStmt(cond, body) == [node |-> "WhileStmt", name |-> "", cond |-> cond, body |-> body]
ForStmt(cond, body) == [node |-> "ForStmt", name |-> "", cond |-> cond, body |-> body]
\* key is <<>> or <<the name>>
ForeachStmt(iterable, key, value, body) ==
    [node |-> "ForeachStmt", name |-> value, key |-> key, iterable |-> iterable, body |-> body]

\* ------------------------------------------- the table, as the analyzer uses it
symtab_enter_scope(t, name, kind) ==
    [t EXCEPT !.scopes = Append(@, [meta |-> [name |-> name, kind |-> kind, id |-> t.next],
                                    syms |-> <<>>]),
              !.next = @ + 1]

symtab_exit_scope(t) ==
    [t EXCEPT !.closed = Append(@, Last(t.scopes)), !.scopes = Front(@)]

symtab_lookup_current(t, name) ==
    LET scope == Last(t.scopes).syms IN
    IF DictHas(scope, name) THEN DictGet(scope, name) ELSE 0

symtab_declare(t, name, ref) ==
    IF symtab_lookup_current(t, name) # 0
    THEN [ok |-> FALSE, t |-> t]
    ELSE [ok |-> TRUE,
          t |-> [t EXCEPT !.scopes[Len(t.scopes)].syms = Append(@, [key |-> name, sym |-> ref])]]

\* Mutant of symtab_lookup: only the current scope is searched.
symtab_lookup_current_only(t, name) == symtab_lookup_current(t, name)

symtab_lookup(t, name) ==
    LET hits == {i \in 1..Len(t.scopes) : DictHas(t.scopes[i].syms, name)} IN
    IF hits = {} THEN 0
    ELSE DictGet(t.scopes[CHOOSE i \in hits : \A j \in hits : j <= i].syms, name)

\* The Symbol objects as snapshot shows them
SymbolView(o) ==
    [name |-> o.name, kind |-> o.kind,
     type |-> IF o.kind \in {"func", "method"}
              THEN StructType(<<"params">> \o o.params \o <<"ret", o.ret>>)
              ELSE IF o.kind = "class" THEN StructType(<<"members">>)
              ELSE ScalarType(<<o.type>>),
     lineno |-> "None", value |-> o.value, owner |-> o.owner]

symtab_snapshot(t, heap) ==
    LET view(sc) == [i \in 1..Len(sc.syms) |->
                        [key |-> sc.syms[i].key, sym |-> SymbolView(heap[sc.syms[i].sym])]]
    IN snapshot_of([scopes |-> [i \in 1..Len(t.scopes) |-> view(t.scopes[i])],
                    scopes_meta |-> [i \in 1..Len(t.scopes) |-> t.scopes[i].meta],
                    closed_scopes |-> [i \in 1..Len(t.closed) |->
                                          [meta |-> t.closed[i].meta,
                                           symbols |-> view(t.closed[i])]],
                    next |-> t.next])

\* ------------------------------------------------------------------ helpers
\* self.error
error(s, msg) == [s EXCEPT !.errors = Append(@, msg)]

Log(s, e) == [s EXCEPT !.log = Append(@, e)]

Returning(s, type) == [s EXCEPT !.ret = type]

\* e, evaluated once the analyzer s has been computed: the statements of the
\* code run one after the other
After(s, e) == IF s.runs >= 0 THEN e ELSE s

\* dict[key] = val on an insertion-ordered dict
DictPut(d, key, val) ==
    IF DictHas(d, key)
    THEN [i \in 1..Len(d) |-> IF d[i].key = key THEN [key |-> key, sym |-> val] ELSE d[i]]
    ELSE Append(d, [key |-> key, sym |-> val])

Declared(name, s) == symtab_lookup(s.symtab, name) # 0

\* The active scopes, outermost first, each a dict from its names to the
\* type of their symbol
ActiveTypes(s) ==
    [i \in 1..Len(s.symtab.scopes) |->
        [j \in 1..Len(s.symtab.scopes[i].syms) |->
            [key |-> s.symtab.scopes[i].syms[j].key,
             sym |-> s.heap[s.symtab.scopes[i].syms[j].sym].type]]]

\* The active scopes, outermost first: name, kind and id of each
ScopeChain(s) == [i \in 1..Len(s.symtab.scopes) |-> s.symtab.scopes[i].meta]

\* Mutant of type_compatible: only equal types are compatible.
type_compatible_equal_only(declared, actual) == declared = actual

type_compatible(declared, actual) ==
    declared = actual \/ (declared = "float" /\ actual = "int") \/ actual = "null"

\* _literal_value: a value for the simple literals, None otherwise
literal_value(e) ==
    IF e # <<>> /\ e[1].node \in {"NumberLit", "StringLit", "BoolLit"}
    THEN <<e[1].name>>
    ELSE <<"None">>

Arithmetic == {"+", "-", "*", "/", "%"}

RECURSIVE infer_expr_type(_, _)
\* _infer_expr_type, param_map a dict from parameter names to types
infer_expr_type(e, param_map) ==
    CASE e.node \in {"NumberLit", "StringLit", "BoolLit"} -> e.name
      [] e.node = "Var" ->
            IF DictHas(param_map, e.name) THEN DictGet(param_map, e.name) ELSE "None"
      [] e.node = "Binary" ->
            LET lt == infer_expr_type(e.left, param_map)
                rt == infer_expr_type(e.right, param_map)
            IN IF e.name \in Arithmetic
               THEN IF lt \in {"int", "float"} /\ rt \in {"int", "float"}
                    THEN (IF "float" \in {lt, rt} THEN "float" ELSE "int")
                    ELSE "None"
               ELSE IF e.name = "." THEN "string" ELSE "bool"
      [] OTHER -> "None"

\* _infer_return_from_body: the type of the first return among the
\* statements of the body
infer_return_from_body(body, param_map) ==
    LET rets == {i \in 1..Len(body.stmts) : body.stmts[i].node = "ReturnStmt"} IN
    IF rets = {} THEN "None"
    ELSE LET r == body.stmts[CHOOSE i \in rets : \A j \in rets : i <= j] IN
         IF r.expr = <<>> THEN "None" ELSE infer_expr_type(r.expr[1], param_map)

\* --------------------------------------------------------------- the visitors
\* A visitor maps the analyzer's fields to the fields after the visit; ret is
\* the value the visit returned. log and fstack record the traversal: fstack
\* is the stack of the functions whose body is being visited.
NewObject(name, kind, type, owner) ==
    [name |-> name, kind |-> kind, type |-> type, params |-> <<>>, ret |-> "None",
     value |-> <<"None">>, owner |-> owner]

CurrentScope(s) == Last(s.symtab.scopes).meta

InClassScope(s) == \E i \in 1..Len(s.symtab.scopes) : s.symtab.scopes[i].meta.kind = "class"

\* The scope symtab.enter_scope has just opened is recorded
Entered(s) ==
    Log(s, [ev |-> "enter_scope", scope |-> CurrentScope(s), depth |-> Len(s.symtab.scopes)])

\* Mutant of Exit: the scope stays open.
Exit_skipped(s) == s

\* symtab.exit_scope(), recorded with the scope it archives
Exit(s) ==
    Log([s EXCEPT !.symtab = symtab_exit_scope(@)],
        [ev |-> "exit_scope", scope |-> CurrentScope(s), depth |-> Len(s.symtab.scopes)])

\* [None for _ in node.params]
RECURSIVE Unknowns(_)
Unknowns(n) == IF n = 0 THEN <<>> ELSE Append(Unknowns(n - 1), "None")

\* Mutant of FunctionKind: the enclosing class is ignored.
FunctionKind_always_func(s) == "func"

\* visit_FunctionDecl, line 118
FunctionKind(s) == IF s.current_class # 0 THEN "method" ELSE "func"

RECURSIVE visit(_, _), visit_all(_, _), visit_params(_, _, _, _, _), call_args(_, _, _, _)

visit_Var(n, s) ==
    LET sym == symtab_lookup(s.symtab, n.name)
        r == IF sym = 0
             THEN Returning(error(s, <<"Variable not declared", n.name>>), "None")
             ELSE Returning(s, s.heap[sym].type)
    IN Log(r, [ev |-> "Var", name |-> n.name, env |-> ActiveTypes(s), chain |-> ScopeChain(s),
               errs |-> SubSeq(r.errors, Len(s.errors) + 1, Len(r.errors)),
               ret |-> r.ret])

visit_Binary(n, s) ==
    LET l == visit(n.left, s)
        left_t == l.ret
        r == visit(n.right, l)
        right_t == r.ret
        op == n.name
        out == CASE op \in Arithmetic ->
                      IF left_t = "None" \/ right_t = "None" THEN Returning(r, "None")
                      ELSE IF left_t \in {"int", "float"} /\ right_t \in {"int", "float"}
                      THEN Returning(r, IF "float" \in {left_t, right_t} THEN "float" ELSE "int")
                      ELSE Returning(error(r, <<"Arithmetic operator", op>>), "None")
                 [] op \in {"==", "<"} -> Returning(r, "bool")
                 [] op = "." -> Returning(r, "string")
                 [] OTHER -> Returning(r, "None")
    IN Log(out, [ev |-> "Binary", op |-> op, left_t |-> left_t, right_t |-> right_t,
                 errs |-> SubSeq(out.errors, Len(r.errors) + 1, Len(out.errors)),
                 ret |-> out.ret])

visit_ReturnStmt(n, s) ==
    LET v == IF n.expr = <<>> THEN Returning(s, "None") ELSE visit(n.expr[1], s)
        rtype == v.ret
        cf == v.current_function
        expected == IF cf = 0 THEN "None" ELSE v.heap[cf].ret
        e == IF cf # 0 /\ expected # "None" /\ rtype # "None"
                /\ ~type_compatible(expected, rtype)
             THEN error(v, <<"Return type mismatch", v.heap[cf].name>>)
             ELSE v
        out == IF cf # 0 /\ expected = "None" /\ rtype # "None"
               THEN [e EXCEPT !.heap[cf].ret = rtype]
               ELSE e
        fn == IF s.fstack = <<>> THEN [name |-> "None", ref |-> 0] ELSE Last(s.fstack)
    IN Log(Returning(out, rtype),
           [ev |-> "Return", fn |-> fn, rtype |-> rtype,
            before |-> IF fn.ref = 0 THEN "None" ELSE v.heap[fn.ref].ret,
            after |-> IF fn.ref = 0 THEN "None" ELSE out.heap[fn.ref].ret,
            errs |-> SubSeq(out.errors, Len(v.errors) + 1, Len(out.errors))])

visit_VarDeclStmt(n, s) ==
    LET init == IF "init" \in DOMAIN n THEN n.init ELSE <<>>
        existing == symtab_lookup(s.symtab, n.name)
        ref == IF existing # 0 THEN existing ELSE Len(s.heap) + 1
        s1 == IF existing # 0 THEN s
              ELSE [s EXCEPT !.heap = Append(@, NewObject(n.name, "var", "None", "None")),
                             !.symtab = symtab_declare(@, n.name, ref).t]
        v == IF init = <<>> THEN s1 ELSE visit(init[1], s1)
        init_type == IF init = <<>> THEN "None" ELSE v.ret
        t == IF init_type # "None" /\ v.heap[ref].type = "None"
             THEN [v EXCEPT !.heap[ref].type = init_type]
             ELSE v
        val == literal_value(init)
        out == IF val # <<"None">> THEN [t EXCEPT !.heap[ref].value = val] ELSE t
    IN Log(Returning(out, "None"),
           [ev |-> "VarDecl", name |-> n.name, existing |-> existing, ref |-> ref,
            init |-> init, init_type |-> init_type,
            env |-> ActiveTypes(s), env_after |-> ActiveTypes(out), chain |-> ScopeChain(s),
            value_before |-> s1.heap[ref].value, value_after |-> out.heap[ref].value,
            errs |-> SubSeq(out.errors, Len(v.errors) + 1, Len(out.errors)),
            objects |-> <<Len(s.heap), Len(out.heap)>>,
            same_table |-> out.symtab = s.symtab])

visit_Block(n, s) ==
    LET s1 == Entered([s EXCEPT !.symtab = symtab_enter_scope(@, "None", "block")])
        s2 == visit_all(n.stmts, s1)
    IN Returning(Exit(s2), "None")

visit_ClassDecl(n, s) ==
    IF symtab_lookup_current(s.symtab, n.name) # 0
    THEN Returning(error(s, <<"Class already declared", n.name>>), "None")
    ELSE
    LET ref == Len(s.heap) + 1
        s1 == [s EXCEPT !.heap = Append(@, NewObject(n.name, "class", "dict", "None")),
                        !.symtab = symtab_enter_scope(symtab_declare(@, n.name, ref).t,
                                                      n.name, "class"),
                        !.current_class = ref]
        s2 == visit_all(n.members, Entered(s1))
        member_names == SelectSeq(n.members, LAMBDA m : m.node = "FunctionDecl")
        s3 == [Exit(s2) EXCEPT
                         !.heap[ref].value =
                             <<"methods">> \o [i \in 1..Len(member_names) |-> member_names[i].name],
                         !.current_class = s.current_class]
    IN Log(Returning(s3, "None"),
           [ev |-> "ClassDecl", name |-> n.name, ref |-> ref, enclosing |-> CurrentScope(s).id,
            members |-> n.members])

visit_FunctionDecl(n, s) ==
    IF symtab_lookup_current(s.symtab, n.name) # 0
    THEN Returning(error(s, <<"Function already declared", n.name>>), "None")
    ELSE
    LET ref == Len(s.heap) + 1
        owner == IF s.current_class # 0 THEN s.heap[s.current_class].name ELSE "None"
        sym == [NewObject(n.name, FunctionKind(s), "dict", owner)
                    EXCEPT !.params = Unknowns(Len(n.params))]
        s1 == [s EXCEPT !.heap = Append(@, sym),
                        !.symtab = symtab_enter_scope(
                                       symtab_declare(@, n.name, ref).t, n.name,
                                       IF s.current_class = 0 THEN "function" ELSE "method"),
                        !.func_nodes = DictPut(@, n.name, n)]
        s2 == visit_params(n, 1, ref, <<>>, Entered(s1))
        s3 == [s2 EXCEPT !.current_function = ref,
                         !.fstack = Append(@, [name |-> n.name, ref |-> ref])]
        s4 == visit(n.body, s3)
        s5 == [Exit(s4) EXCEPT !.current_function = 0,
                               !.fstack = Front(@)]
        psyms == DictGet(s3.func_params, n.name)
    IN Log(Returning(s5, "None"),
           [ev |-> "FunctionDecl", name |-> n.name, ref |-> ref, node |-> n,
            psyms |-> psyms,
            param_types |-> [i \in 1..Len(psyms) |-> s3.heap[psyms[i]].type],
            signature |-> s3.heap[ref].params,
            scope_syms |-> Last(s3.symtab.scopes).syms,
            dups |-> SelectSeq(SubSeq(s2.errors, Len(s1.errors) + 1, Len(s2.errors)),
                               LAMBDA e : e[1] = "Parameter duplicated"),
            member |-> CurrentScope(s).kind = "class", in_class |-> InClassScope(s),
            class |-> CurrentScope(s).name, enclosing |-> CurrentScope(s).id,
            opened |-> CurrentScope(s1)])

\* self.visit(p.default) has taken the analyzer from before to after
DefaultVisited(before, after, ref, idx, line) ==
    Log(after, [ev |-> "DefaultVisit", ref |-> ref, i |-> idx, line |-> line,
                errs |-> SubSeq(after.errors, Len(before.errors) + 1, Len(after.errors))])

\* visit_FunctionDecl, lines 131-152: the loop over the parameters, from the
\* idx-th on, and the recording of the parameter symbols
visit_params(n, idx, ref, params_syms, s) ==
    IF idx > Len(n.params)
    THEN [s EXCEPT !.func_params = DictPut(@, n.name, params_syms)]
    ELSE
    LET p == n.params[idx]
        v == IF p.default = <<>> THEN Returning(s, "None") ELSE visit(p.default[1], s)
        default_type == v.ret
        s1 == IF p.default = <<>> THEN v
              ELSE Log([DefaultVisited(s, v, ref, idx, 136)
                            EXCEPT !.heap[ref].params[idx] = default_type],
                       [ev |-> "Default", ref |-> ref, i |-> idx,
                        before |-> v.heap[ref].params[idx], after |-> default_type,
                        errs |-> <<>>])
        pref == Len(s1.heap) + 1
        psym == [NewObject(p.name, "param", default_type, n.name)
                     EXCEPT !.value = literal_value(p.default)]
        s2 == [s1 EXCEPT !.heap = Append(@, psym)]
        d == symtab_declare(s2.symtab, p.name, pref)
        s3 == IF d.ok THEN [s2 EXCEPT !.symtab = d.t]
              ELSE error(s2, <<"Parameter duplicated", p.name>>)
        s4 == IF p.default = <<>> THEN s3
              ELSE DefaultVisited(s3, visit(p.default[1], s3), ref, idx, 150)
    IN After(s4, visit_params(n, idx + 1, ref, Append(params_syms, pref), s4))

\* visit_Call, lines 335-341: an unknown entry of the signature takes the
\* type at of the argument, and so does the parameter symbol when it is
\* registered and has no type (v is the analyzer after the visit of the argument)
call_arg_filled(n, sym, i, v) ==
    LET at == v.ret
        params == v.heap[sym].params
        fill == i <= Len(params) /\ params[i] = "None" /\ at # "None"
        psyms == IF DictHas(v.func_params, n.name) THEN DictGet(v.func_params, n.name) ELSE <<>>
    IN IF ~fill THEN v
       ELSE IF i <= Len(psyms) /\ v.heap[psyms[i]].type = "None"
       THEN [v EXCEPT !.heap[sym].params[i] = at, !.heap[psyms[i]].type = at]
       ELSE [v EXCEPT !.heap[sym].params[i] = at]

\* visit_Call, lines 342-343: the argument is checked against the entry
\* (s1 is the analyzer once the entry has been filled in)
call_arg_checked(n, sym, i, v, s1) ==
    LET at == v.ret
        params == v.heap[sym].params
        fill == i <= Len(params) /\ params[i] = "None" /\ at # "None"
        psyms == IF DictHas(v.func_params, n.name) THEN DictGet(v.func_params, n.name) ELSE <<>>
        now == s1.heap[sym].params
        s2 == IF i <= Len(now) /\ now[i] # "None" /\ at # "None"
                 /\ ~type_compatible(now[i], at)
              THEN error(s1, <<"Argument type mismatch", n.name, ToString(i)>>)
              ELSE s1
    IN Log(s2, [ev |-> "Arg", ref |-> sym, name |-> n.name, i |-> i, at |-> at,
                has |-> i <= Len(params),
                filled |-> IF fill /\ i <= Len(psyms) /\ v.heap[psyms[i]].type = "None"
                           THEN psyms[i] ELSE 0,
                before |-> IF i <= Len(params) THEN params[i] ELSE "None",
                after |-> IF i <= Len(now) THEN now[i] ELSE "None",
                errs |-> SubSeq(s2.errors, Len(v.errors) + 1, Len(s2.errors))])

\* visit_Call, lines 333-343: the loop over the arguments, from the i-th on
call_args(n, sym, i, s) ==
    IF i > Len(n.args) THEN s
    ELSE
    LET v == visit(n.args[i], s)
        s3 == call_arg_checked(n, sym, i, v, call_arg_filled(n, sym, i, v))
    IN After(s3, call_args(n, sym, i + 1, s3))

\* visit_Call, lines 327-331: the number of arguments is checked against a
\* non-empty params
visit_Call_arity(n, sym, s) ==
    LET params == s.heap[sym].params
        s1 == IF params # <<>> /\ Len(params) # Len(n.args)
              THEN error(s, <<"Function expects args", n.name>>)
              ELSE s
    IN Log(s1, [ev |-> "Call", ref |-> sym, name |-> n.name,
                nparams |-> Len(params),
                nargs |-> Len(n.args),
                errs |-> SubSeq(s1.errors, Len(s.errors) + 1, Len(s1.errors))])

\* visit_Call, lines 345-357: the return type, inferred from the registered
\* body when the signature has none (s2 is the analyzer after the arguments)
visit_Call_return(n, sym, s2) ==
    LET ret_type == s2.heap[sym].ret
        psyms == IF DictHas(s2.func_params, n.name) THEN DictGet(s2.func_params, n.name) ELSE <<>>
        RECURSIVE param_map(_)
        param_map(k) == IF k = 0 THEN <<>>
                        ELSE DictPut(param_map(k - 1), s2.heap[psyms[k]].name,
                                     s2.heap[psyms[k]].type)
        inferred == IF ret_type = "None" /\ DictHas(s2.func_nodes, n.name)
                    THEN infer_return_from_body(DictGet(s2.func_nodes, n.name).body,
                                                param_map(Len(psyms)))
                    ELSE "None"
        s3 == Log(s2, [ev |-> "CallRet", ref |-> sym, name |-> n.name, ret_type |-> ret_type,
                       scanned |-> IF ret_type = "None" /\ DictHas(s2.func_nodes, n.name)
                                   THEN <<DictGet(s2.func_nodes, n.name)>> ELSE <<>>,
                       read |-> psyms, inferred |-> inferred])
    IN IF inferred # "None"
       THEN Returning([s3 EXCEPT !.heap[sym].ret = inferred], inferred)
       ELSE Returning(s3, ret_type)

visit_Call(n, s) ==
    LET sym == symtab_lookup(s.symtab, n.name) IN
    IF sym = 0
    THEN Returning(visit_all(n.args, error(s, <<"Call to undefined function", n.name>>)), "None")
    ELSE IF s.heap[sym].kind # "func"
    THEN Returning(visit_all(n.args, error(s, <<"Not a function", n.name>>)), "None")
    ELSE visit_Call_return(n, sym, call_args(n, sym, 1, visit_Call_arity(n, sym, s)))

\* visit_Assign, lines 205-216: the checks once the value has been visited
\* (v is the analyzer after that visit, s the one before)
visit_Assign_checks(n, sym, s, v) ==
    LET vtype == v.ret
        old == v.heap[sym].type
        s1 == IF old # "None" /\ vtype # "None" /\ ~type_compatible(old, vtype)
              THEN error(v, <<"Type mismatch assigning", n.name>>)
              ELSE v
        s2 == IF vtype # "None" /\ old = "None"
              THEN [s1 EXCEPT !.heap[sym].type = vtype]
              ELSE s1
        literal_val == literal_value(<<n.value>>)
        s3 == IF literal_val # <<"None">> THEN [s2 EXCEPT !.heap[sym].value = literal_val]
              ELSE s2
    IN Log(Returning(s3, vtype),
           [ev |-> "Assign", name |-> n.name, sym |-> sym, value |-> n.value, vtype |-> vtype,
            env |-> ActiveTypes(s), env_value |-> ActiveTypes(v), env_after |-> ActiveTypes(s3),
            value_before |-> s.heap[sym].value, value_after |-> s3.heap[sym].value,
            own |-> SubSeq(s3.errors, Len(v.errors) + 1, Len(s3.errors)),
            visited |-> Len(v.log) > Len(s.log),
            objects |-> <<Len(s.heap), Len(s3.heap)>>, same_table |-> s3.symtab = s.symtab])

\* visit_Assign, lines 200-203: the value is visited after the diagnostic
visit_Assign_unbound(n, s, e, v) ==
    Log(Returning(v, "None"),
        [ev |-> "Assign", name |-> n.name, sym |-> 0, value |-> n.value, vtype |-> v.ret,
         env |-> ActiveTypes(s), env_value |-> ActiveTypes(v), env_after |-> ActiveTypes(v),
         value_before |-> <<"None">>, value_after |-> <<"None">>,
         own |-> SubSeq(e.errors, Len(s.errors) + 1, Len(e.errors)),
         visited |-> Len(v.log) > Len(e.log),
         objects |-> <<Len(s.heap), Len(v.heap)>>, same_table |-> v.symtab = s.symtab])

\* visit_Assign for a target that is a Var
visit_Assign(n, s) ==
    IF symtab_lookup(s.symtab, n.name) = 0
    THEN visit_Assign_unbound(n, s, error(s, <<"Variable used before declaration", n.name>>),
                              visit(n.value,
                                    error(s, <<"Variable used before declaration", n.name>>)))
    ELSE visit_Assign_checks(n, symtab_lookup(s.symtab, n.name), s, visit(n.value, s))

\* The reference lookup gives for the name in <<name>>, 0 for <<>> and for None
LookupRef(s, name) == IF name = <<>> THEN 0 ELSE symtab_lookup(s.symtab, name[1])

\* The Symbol object behind a reference, <<>> for None
ObjectAt(s, ref) == IF ref = 0 THEN <<>> ELSE <<s.heap[ref]>>

\* visit_ForeachStmt, line 434: exit_scope once the body has been visited
\* (s before the statement, v after the iterable, e after the diagnostic,
\* s3 when the body starts, b when it ends)
visit_ForeachStmt_exit(n, s, v, e, s3, b) ==
    LET out == Exit(b) IN
    Log(Returning(out, "None"),
        [ev |-> "Foreach", name |-> n.name, key |-> n.key, itype |-> v.ret,
         own |-> SubSeq(e.errors, Len(v.errors) + 1, Len(e.errors)),
         scope |-> CurrentScope(s3),
         depth |-> <<Len(e.symtab.scopes), Len(s3.symtab.scopes), Len(out.symtab.scopes)>>,
         archived |-> Last(out.symtab.closed).meta,
         outer |-> <<LookupRef(e, n.key), LookupRef(e, <<n.name>>)>>,
         inner |-> <<LookupRef(s3, n.key), LookupRef(s3, <<n.name>>)>>,
         inner_end |-> <<LookupRef(b, n.key), LookupRef(b, <<n.name>>)>>,
         after |-> <<LookupRef(out, n.key), LookupRef(out, <<n.name>>)>>,
         new |-> <<ObjectAt(s3, LookupRef(s3, n.key)), ObjectAt(s3, LookupRef(s3, <<n.name>>))>>,
         outer_before |-> <<ObjectAt(e, LookupRef(e, n.key)), ObjectAt(e, LookupRef(e, <<n.name>>))>>,
         outer_after |-> <<ObjectAt(out, LookupRef(e, n.key)),
                           ObjectAt(out, LookupRef(e, <<n.name>>))>>,
         objects |-> <<Len(e.heap), Len(s3.heap)>>])

\* Mutant of foreach_declare: a name that lookup resolves is not declared again.
foreach_declare_unless_bound(s, name) ==
    IF symtab_lookup(s.symtab, name) # 0 THEN s
    ELSE [s EXCEPT !.heap = Append(@, NewObject(name, "var", "None", "None")),
                   !.symtab = symtab_declare(@, name, Len(s.heap) + 1).t]

\* visit_ForeachStmt, lines 430 and 432: declare(name, Symbol(name, "var", None))
foreach_declare(s, name) ==
    [s EXCEPT !.heap = Append(@, NewObject(name, "var", "None", "None")),
              !.symtab = symtab_declare(@, name, Len(s.heap) + 1).t]

\* visit_ForeachStmt, lines 428-434: the scope, the two declarations, the
\* body, the exit (v is the analyzer after the visit of the iterable)
visit_ForeachStmt_scope(n, s, v) ==
    LET e == IF v.ret # "array" THEN error(v, <<"Foreach expects an array", v.ret>>) ELSE v
        s1 == Entered([e EXCEPT !.symtab = symtab_enter_scope(@, "None", "block")])
        s2 == IF n.key = <<>> THEN s1 ELSE foreach_declare(s1, n.key[1])
        s3 == foreach_declare(s2, n.name)
    IN visit_ForeachStmt_exit(n, s, v, e, s3, visit(n.body, s3))

visit_ForeachStmt(n, s) == visit_ForeachStmt_scope(n, s, visit(n.iterable, s))

\* visit: the dispatch on the class of the node; generic_visit for ExprStmt
visit(n, s) ==
    LET s0 == Log(s, [ev |-> "visit", n |-> n, nerr |-> Len(s.errors)]) IN
    After(s0,
    CASE n.node = "Program" -> Returning(visit_all(n.stmts, s0), "None")
      [] n.node = "ClassDecl" -> visit_ClassDecl(n, s0)
      [] n.node = "FunctionDecl" -> visit_FunctionDecl(n, s0)
      [] n.node = "VarDeclStmt" -> visit_VarDeclStmt(n, s0)
      [] n.node = "EchoStmt" -> Returning(visit(Var(n.name), s0), "None")
      [] n.node = "Block" -> visit_Block(n, s0)
      [] n.node = "ExprStmt" -> Returning(visit(n.expr, s0), "None")
      [] n.node = "ReturnStmt" -> visit_ReturnStmt(n, s0)
      [] n.node = "Var" -> visit_Var(n, s0)
      [] n.node \in {"NumberLit", "StringLit", "BoolLit", "NullLit"} -> Returning(s0, n.name)
      [] n.node = "Name" -> Returning(s0, n.name)
      [] n.node = "ArrayLit" -> Returning(visit_all(n.args, s0), "array")
      [] n.node = "Binary" -> visit_Binary(n, s0)
      [] n.node = "Call" -> visit_Call(n, s0)
      [] n.node = "Assign" -> visit_Assign(n, s0)
      [] n.node \in {"IfStmt", "WhileStmt", "ForStmt"} ->
            Returning(visit(n.body, visit(n.cond, s0)), "None")
      [] n.node = "ForeachStmt" -> visit_ForeachStmt(n, s0)
      [] OTHER -> Returning(s0, "None"))

visit_all(nodes, s) ==
    IF nodes = <<>> THEN s
    ELSE LET v == visit(Head(nodes), s) IN After(v, visit_all(Tail(nodes), v))

\* The analyzer v once the visit of program is over: the snapshot is taken
SemanticAnalyzer_after(v, program) ==
    [v EXCEPT !.snapshot_data = symtab_snapshot(v.symtab, v.heap),
              !.ret = "None", !.runs = @ + 1, !.program = <<program>>]

\* analyze, run on the analyzer a: the analyzer after the run
analyze_on(a, program) ==
    SemanticAnalyzer_after(visit(program, [a EXCEPT !.errors = <<>>, !.symtab = NewSymtab,
                                                    !.log = <<>>, !.fstack = <<>>]),
                           program)

\* analyze on a new SemanticAnalyzer: the returned list of errors
analyze(program) == analyze_on(SemanticAnalyzer__init__, program).errors

\* ===========================================================================
\* CompilerFacade.compile
\* ===========================================================================

\* PhpLexer.error_count of the lexer the facade hands to the parser: one per
\* character the lexer skipped
lexer_error_count(c) == c.lex_errors

\* compile, lines 76-94, from the finished parse invocation c
CompilationResult(c) ==
    LET ast == c.ret
        lexical_errors == lexer_error_count(c)
        syntax_errors == c.error_count
    IN [ok |-> ast # <<>> /\ lexical_errors = 0 /\ syntax_errors = 0,
        tokens |-> tokenize(c.src),
        ast |-> ast,
        lexical_errors |-> lexical_errors,
        syntax_errors |-> syntax_errors,
        syntax_messages |-> c.reported,
        source |-> c.src]

CompileReturn ==
    /\ 1 \in DOMAIN th
    /\ At(1, "done")
    /\ cres = <<>>
    /\ cres' = <<CompilationResult(th[1])>>
    /\ UNCHANGED <<scopes, scopes_meta, closed_scopes, next_scope_id, tcall,
                   declLog, tprev, cur, th, printed, an, lx>>

\* ===========================================================================
\* One compile request
\* ===========================================================================

BodyLexemes == {"?>", ";", "{", "}", "echo", "$a", "@"}

Tails == UNION {[1..n -> BodyLexemes] : n \in 0..MaxLen}

SampleSources ==
    {<<>>, <<";">>, <<"?>">>, <<"echo", "$a", ";">>,
     <<"<?php", "$b", ";", "echo", "$b", ";", "?>">>,
     <<"<?php", "{", "$a", ";", "}", "echo", "$a", ";", "?>">>,
     <<"<?php", "echo", "echo", "$a", "}", "echo", ";", "?>">>}

Sources == {<<"<?php">> \o s : s \in Tails} \cup SampleSources

Init ==
    /\ SymbolTable__init__
    /\ NoAnalysis
    /\ cur = 0
    /\ printed = <<>>
    /\ cres = <<>>
    /\ th = [t \in {1} |-> NewSession]

Next ==
    \/ ParseBegin(1, Sources)
    \/ PlyStep(1)
    \/ PError(1)
    \/ PErrorRegister(1)
    \/ RecoverBegin(1)
    \/ RecoverToken(1)
    \/ Errok(1)
    \/ PErrorRet(1)
    \/ PlyRecover(1)
    \/ ParseFinally(1)
    \/ ParseReturn(1)
    \/ CompileReturn

Spec == Init /\ [][Next]_vars

\* The same compile request on the shorter sources, with every enabled step
\* eventually taken: the pipeline is one synchronous call that nothing
\* suspends.
LiveSources ==
    {<<"<?php">> \o s : s \in UNION {[1..n -> BodyLexemes] : n \in 0..MaxLiveLen}}

NextLive ==
    \/ ParseBegin(1, LiveSources)
    \/ PlyStep(1)
    \/ PError(1)
    \/ PErrorRegister(1)
    \/ RecoverBegin(1)
    \/ RecoverToken(1)
    \/ Errok(1)
    \/ PErrorRet(1)
    \/ PlyRecover(1)
    \/ ParseFinally(1)
    \/ ParseReturn(1)
    \/ CompileReturn

SpecLive == Init /\ [][NextLive]_vars /\ WF_vars(NextLive)

\* ===========================================================================
\* Properties of the compile request
\* ===========================================================================

\* The semantic error count of a compilation: what the analyzer reports on
\* the tree the parser returned, nothing when there is no tree.
SemanticErrors(r) == IF r.ast = <<>> THEN 0 ELSE Len(analyze(r.ast[1]))

\* C1: compile sets ok to true if and only if the AST is present and the
\* lexical, syntax and semantic error counts are all zero.
C1_CompileOk ==
    cres # <<>> =>
        (cres[1].ok <=> (/\ cres[1].ast # <<>>
                         /\ cres[1].lexical_errors = 0
                         /\ cres[1].syntax_errors = 0
                         /\ SemanticErrors(cres[1]) = 0))

\* C2: parse returns None if and only if at least one syntax error was
\* recorded, also when the input ends before the grammar is complete.
C2_ParseResult ==
    \A t \in DOMAIN th :
        At(t, "done") => ((th[t].ret = <<>>) <=> (th[t].error_count >= 1))

\* The tokens the lexer yields after position pos, in order
TokensAfter(src, pos) ==
    SelectSeq([i \in 1..Len(src) |-> MakeToken(src, i)],
              LAMBDA k : k.lineno > pos /\ k.type # "error")

RecoveryOver(c) ==
    \/ c.pc = "errok"
    \/ c.pc = "p_error_ret" /\ c.errtoken # <<>>
    \/ c.pc = "loop" /\ c.resumed

InRecovery(c) == c.pc = "recover_token" \/ RecoveryOver(c)

\* The recovery of invocation c discarded the tokens that follow the
\* offending one, in order and without a gap, and none after the first
\* SEMICOLON, RBRACE or PHP_CLOSE; once over, it stopped on such a token or
\* at the end of the stream, and the engine resumes, error flag cleared, by
\* reading the token that follows.
C4_Safety ==
    \A t \in DOMAIN th :
        LET c == th[t]
            rest == TokensAfter(c.src, c.rec_from)
            n == Len(c.discarded)
        IN
        InRecovery(c) =>
            /\ n <= Len(rest)
            /\ c.discarded = SubSeq(rest, 1, n)
            /\ c.rec_from = Last(c.perr_log).lineno
            /\ \A i \in 1..(n - 1) : c.discarded[i].type \notin {"SEMICOLON", "RBRACE", "PHP_CLOSE"}
            /\ TokensAfter(c.src, c.lexpos) = SubSeq(rest, n + 1, Len(rest))
            /\ (c.pc = "recover_token" /\ n > 0) =>
                   Last(c.discarded).type \notin {"SEMICOLON", "RBRACE", "PHP_CLOSE"}
            /\ RecoveryOver(c) =>
                   \/ n > 0 /\ Last(c.discarded).type \in {"SEMICOLON", "RBRACE", "PHP_CLOSE"}
                   \/ n = Len(rest)
            /\ (c.pc = "loop" /\ c.resumed) => (c.errorok /\ c.lookahead = <<>>)

C5_ErrorAccounting ==
    \A t \in DOMAIN th :
        LET c == th[t]
            calls == Len(c.perr_log)
        IN
        /\ Len(c.reported) = IF c.pc = "p_error" /\ c.errtoken # <<>> THEN calls - 1 ELSE calls
        /\ Len(c.state_errors) = IF \/ c.pc = "p_error" /\ c.errtoken # <<>>
                                    \/ c.pc = "register"
                                 THEN calls - 1 ELSE calls
        /\ \A i \in 1..Len(c.reported) :
               c.reported[i] = <<"Error de sintaxis en linea", c.perr_log[i].lineno>>
        /\ \A i \in 1..Len(c.state_errors) :
               /\ c.state_errors[i].token_type = c.perr_log[i].type
               /\ c.state_errors[i].token_value = c.perr_log[i].value
               /\ c.state_errors[i].lineno = c.perr_log[i].lineno
               /\ c.state_errors[i].message = c.reported[i]
        /\ \A i \in 1..(calls - 1) : c.perr_log[i].lineno < c.perr_log[i + 1].lineno
        /\ c.pc = "done" =>
               /\ c.errors = c.state_errors
               /\ c.error_count = Len(c.errors)
               /\ c.error_count = Len(c.reported)
               /\ c.error_count = calls
        /\ printed = <<>>

\* A finished parse with two errors, both recorded and both reported
C5_Witness ==
    /\ th[1].pc = "done"
    /\ th[1].error_count = 2
    /\ Len(th[1].reported) = 2

\* ===========================================================================
\* Two parse invocations in parallel threads
\* ===========================================================================

Threads == {1, 2}

ConcSources ==
    {<<"<?php", ";", "?>">>,
     <<"<?php", "echo", ";", "?>">>,
     <<"<?php", "}", "$a", ";", "?>">>}

InitConc ==
    /\ SymbolTable__init__
    /\ NoAnalysis
    /\ cur = 0
    /\ printed = <<>>
    /\ cres = <<>>
    /\ th = [t \in Threads |-> NewSession]

\* Each wrapper has its own PLY parser, lexer and reporter; the threads
\* share the module and so _CURRENT_STATE, and a thread switch may fall
\* between any two steps.
NextConc ==
    \E t \in Threads :
        \/ ParseBegin(t, ConcSources)
        \/ PlyStep(t)
        \/ PError(t)
        \/ PErrorRegister(t)
        \/ RecoverBegin(t)
        \/ RecoverToken(t)
        \/ Errok(t)
        \/ PErrorRet(t)
        \/ PlyRecover(t)
        \/ ParseFinally(t)
        \/ ParseReturn(t)

SpecConc == InitConc /\ [][NextConc]_vars

\* The step invocation t takes next
step(w, t) ==
    LET pc == w.th[t].pc IN
    CASE pc = "loop" -> ply_step(w, t)
      [] pc = "p_error" -> p_error(w, t)
      [] pc = "register" -> p_error_register(w, t)
      [] pc = "recover" -> recover_begin(w, t)
      [] pc = "recover_token" -> recover_token(w, t)
      [] pc = "errok" -> errok(w, t)
      [] pc = "p_error_ret" -> p_error_ret(w, t)
      [] pc = "ply_recover" -> ply_recover(w, t)
      [] pc = "finish" -> parse_finally(w, t)
      [] pc = "collect" -> parse_return(w, t)
      [] OTHER -> w

RECURSIVE run(_, _)
run(w, t) == IF w.th[t].pc = "done" THEN w ELSE run(step(w, t), t)

\* parse(source) on a fresh wrapper with no other invocation around
RunAlone(source) ==
    run(parse_begin([cur |-> 0, th |-> [t \in {1} |-> NewSession], printed |-> <<>>],
                    1, source), 1).th[1]

\* C3: with two parse invocations interleaved, each one's errors and
\* error_count are exactly those of its own source and each returns what it
\* returns when run alone.
C3_Isolation ==
    \A t \in DOMAIN th :
        At(t, "done") =>
            LET alone == RunAlone(th[t].src) IN
            /\ th[t].errors = alone.errors
            /\ th[t].error_count = alone.error_count
            /\ th[t].ret = alone.ret

\* ===========================================================================
\* Semantic analysis of small programs, twice on one SemanticAnalyzer
\* ===========================================================================

MaxItems == 2

IntLit == NumberLit("int")

\* function f($x) { return $x; }
Decl_f == FunctionDecl("f", <<Param("$x", <<>>)>>, Block(<<ReturnStmt(<<Var("$x")>>)>>))

\* function f($y = 1) {}
Decl_f_default == FunctionDecl("f", <<Param("$y", <<IntLit>>)>>, Block(<<>>))

\* function f($x = f(1)) { return $y; }
Decl_f_selfcall ==
    FunctionDecl("f", <<Param("$x", <<Call("f", <<IntLit>>)>>)>>,
                 Block(<<ReturnStmt(<<Var("$y")>>)>>))

\* function f($x = f(1) . "s") {}
Decl_f_concat ==
    FunctionDecl("f", <<Param("$x", <<Binary(".", Call("f", <<IntLit>>), StringLit)>>)>>,
                 Block(<<>>))

\* function g($a, $a) { return 1; function h() { return 1.5; } return "s"; }
Decl_g_nested ==
    FunctionDecl("g", <<Param("$a", <<>>), Param("$a", <<>>)>>,
                 Block(<<ReturnStmt(<<IntLit>>),
                         FunctionDecl("h", <<>>, Block(<<ReturnStmt(<<NumberLit("float")>>)>>)),
                         ReturnStmt(<<StringLit>>)>>))

\* function g() { return 1.5; return 1; return "s"; return; echo $b; }
Decl_g_returns ==
    FunctionDecl("g", <<>>,
                 Block(<<ReturnStmt(<<NumberLit("float")>>), ReturnStmt(<<IntLit>>),
                         ReturnStmt(<<StringLit>>), ReturnStmt(<<>>), EchoStmt("$b")>>))

\* class C { $a; function m() { function n() {} } function f() { echo $a; } }
Decl_C ==
    ClassDecl("C", <<VarDeclStmt("$a"),
                     FunctionDecl("m", <<>>, Block(<<FunctionDecl("n", <<>>, Block(<<>>))>>)),
                     FunctionDecl("f", <<>>, Block(<<EchoStmt("$a")>>))>>)

Items ==
    {VarDeclStmt("$a"),
     VarDeclInit("$a", <<IntLit>>),
     VarDeclInit("$b", <<StringLit>>),
     EchoStmt("$a"),
     Block(<<VarDeclInit("$b", <<NumberLit("float")>>), EchoStmt("$b"), EchoStmt("$a")>>),
     ExprStmt(Binary("+", Var("$a"), IntLit)),
     ExprStmt(Binary("*", Var("$a"), Var("$b"))),
     ExprStmt(Binary("-", NumberLit("float"), IntLit)),
     ExprStmt(Call("f", <<IntLit>>)),
     ExprStmt(Call("f", <<StringLit>>)),
     ExprStmt(Call("f", <<>>)),
     ExprStmt(Call("g", <<Var("$a"), NumberLit("float")>>)),
     Decl_f, Decl_f_default, Decl_f_selfcall, Decl_f_concat,
     Decl_g_nested, Decl_g_returns, Decl_C}

RECURSIVE ItemSeqs(_)
ItemSeqs(n) ==
    IF n = 0 THEN {<<>>}
    ELSE LET shorter == ItemSeqs(n - 1) IN
         shorter \cup {Append(q, it) : q \in {r \in shorter : Len(r) = n - 1}, it \in Items}

\* Longer programs for the cases that need a declaration and two uses of it
SamplePrograms ==
    {<<Decl_f, ExprStmt(Call("f", <<IntLit>>)), ExprStmt(Call("f", <<StringLit>>))>>,
     <<VarDeclStmt("$a"), VarDeclInit("$a", <<IntLit>>), ExprStmt(Binary("+", Var("$a"), IntLit))>>,
     <<Decl_g_returns, Decl_g_nested, ExprStmt(Call("g", <<>>))>>,
     <<Decl_C, Decl_C, ExprStmt(Call("m", <<>>))>>,
     <<VarDeclInit("$a", <<IntLit>>),
       Block(<<VarDeclInit("$b", <<NumberLit("float")>>), EchoStmt("$b"), EchoStmt("$a")>>),
       ExprStmt(Binary("*", Var("$a"), Var("$b")))>>}

Programs == {Program(q) : q \in ItemSeqs(MaxItems) \cup SamplePrograms}

\* The programs of the second analysis
RerunPrograms ==
    {Program(<<>>), Program(<<Decl_f_selfcall>>), Program(<<ExprStmt(Call("f", <<IntLit>>))>>),
     Program(<<Decl_C, EchoStmt("$a")>>)}

AnalyzeUnchanged ==
    UNCHANGED <<scopes, scopes_meta, closed_scopes, next_scope_id, tcall, declLog, tprev,
                cur, th, printed, cres, lx>>

\* analyzer.analyze(program) on the new analyzer
Analyze(program) ==
    /\ an.runs = 0
    /\ an' = analyze_on(an, program)
    /\ AnalyzeUnchanged

\* a second analyzer.analyze(program) on the same analyzer
AnalyzeAgain(program) ==
    /\ an.runs = 1
    /\ an' = analyze_on(an, program)
    /\ AnalyzeUnchanged

\* The programs a call can be given: any of them on the new analyzer
AnalyzeInputs == IF an.runs = 0 THEN Programs ELSE {}

NextSem ==
    \/ \E program \in AnalyzeInputs : Analyze(program)
    \/ \E program \in RerunPrograms : AnalyzeAgain(program)

SpecSem == TableInit /\ [][NextSem]_vars

\* ---------------------------------------------------------------------------
\* Claims about the SemanticAnalyzer (checked under SpecSem)
\* ---------------------------------------------------------------------------

\* C11: analyzing a program B on an analyzer that has already analyzed a
\* program A gives the diagnostics and the snapshot that a new analyzer gives
\* for B: nothing left by A influences the result.
C11_ReuseIsFresh ==
    an.runs = 2 =>
        LET fresh == analyze_on(SemanticAnalyzer__init__, an.program[1]) IN
        /\ an.errors = fresh.errors
        /\ an.snapshot_data = fresh.snapshot_data

\* The statement and expression nodes of the tree under n, n included
RECURSIVE Nodes(_), NodesOf(_)
NodesOf(nodes) == UNION {Nodes(nodes[i]) : i \in 1..Len(nodes)}

Nodes(n) ==
    {n} \cup
    CASE n.node \in {"Program", "Block"} -> NodesOf(n.stmts)
      [] n.node = "ClassDecl" -> NodesOf(n.members)
      [] n.node = "FunctionDecl" ->
            Nodes(n.body) \cup UNION {NodesOf(n.params[i].default) : i \in 1..Len(n.params)}
      [] n.node = "VarDeclStmt" -> IF "init" \in DOMAIN n THEN NodesOf(n.init) ELSE {}
      [] n.node = "EchoStmt" -> {Var(n.name)}
      [] n.node = "ExprStmt" -> Nodes(n.expr)
      [] n.node = "ReturnStmt" -> NodesOf(n.expr)
      [] n.node = "Binary" -> Nodes(n.left) \cup Nodes(n.right)
      [] n.node = "Call" -> NodesOf(n.args)
      [] OTHER -> {}

Visits == SelectSeq(an.log, LAMBDA e : e.ev = "visit")

\* C12: recording a diagnostic never stops the traversal: every statement
\* and expression node of the program is visited, the members of a class
\* reported duplicate and the body of a function reported duplicate included,
\* and the list of diagnostics only grows during the run.
C12_EveryNodeVisited ==
    an.runs >= 1 =>
        /\ \A m \in Nodes(an.program[1]) : \E i \in 1..Len(Visits) : Visits[i].n = m
        /\ \A i \in 1..Len(Visits) :
              /\ Visits[i].nerr <= Len(an.errors)
              /\ i > 1 => Visits[i - 1].nerr <= Visits[i].nerr

VarReads == SelectSeq(an.log, LAMBDA e : e.ev = "Var")

\* The active scopes that bind the name read by e
Binders(e) == {i \in 1..Len(e.env) : DictHas(e.env[i], e.name)}

\* C13: reading a variable records exactly one 'not declared' diagnostic
\* and yields the unknown type if and only if no active scope binds the name;
\* a name bound in a still active scope gives no diagnostic and the current
\* type of the symbol of the innermost such scope.
C13_VarRead ==
    \A k \in 1..Len(VarReads) :
        LET e == VarReads[k] IN
        IF Binders(e) = {}
        THEN e.errs = <<<<"Variable not declared", e.name>>>> /\ e.ret = "None"
        ELSE /\ e.errs = <<>>
             /\ e.ret = DictGet(e.env[CHOOSE i \in Binders(e) : \A j \in Binders(e) : j <= i],
                                e.name)

\* A read resolved in an enclosing scope to a known type, and a read of a
\* name that no active scope binds any more
C13_Witness ==
    /\ \E k \in 1..Len(VarReads) :
          /\ Binders(VarReads[k]) # {}
          /\ Len(VarReads[k].env) \notin Binders(VarReads[k])
          /\ VarReads[k].ret = "int"
    /\ \E k \in 1..Len(VarReads) : VarReads[k].errs # <<>>

ArithmeticOps == SelectSeq(an.log, LAMBDA e : e.ev = "Binary" /\ e.op \in Arithmetic)

\* C14: for + - * / %, when both operand types are in {int, float} the
\* result is float if either is float and int otherwise, with no diagnostic;
\* in every other case, an operand of unknown type included, exactly one
\* 'Arithmetic operator' diagnostic is recorded and the result is unknown.
C14_Arithmetic ==
    \A k \in 1..Len(ArithmeticOps) :
        LET e == ArithmeticOps[k] IN
        IF e.left_t \in {"int", "float"} /\ e.right_t \in {"int", "float"}
        THEN e.errs = <<>> /\ e.ret = (IF "float" \in {e.left_t, e.right_t} THEN "float" ELSE "int")
        ELSE e.errs = <<<<"Arithmetic operator", e.op>>>> /\ e.ret = "None"

FunctionDecls == SelectSeq(an.log, LAMBDA e : e.ev = "FunctionDecl")

ClassDecls == SelectSeq(an.log, LAMBDA e : e.ev = "ClassDecl")

\* The scopes of the table after the run, closed or active
AllScopes == an.symtab.closed \o an.symtab.scopes

\* The symbol object ref is recorded under name in the scope numbered id
RecordedIn(id, name, ref) ==
    \E i \in 1..Len(AllScopes) :
        /\ AllScopes[i].meta.id = id
        /\ DictHas(AllScopes[i].syms, name)
        /\ DictGet(AllScopes[i].syms, name) = ref

MemberFunctionNames(members) ==
    LET fs == SelectSeq(members, LAMBDA m : m.node = "FunctionDecl") IN
    [i \in 1..Len(fs) |-> fs[i].name]

\* C15: a function declared outside any class is recorded with kind func
\* and no owner and opens a scope of kind function named after it; a member
\* function of a class is recorded in the scope of the class with kind method
\* and the class name as owner and opens a scope of kind method; a class is
\* recorded in the enclosing scope with kind class and, once closed, the value
\* of its symbol lists the name of every member function.
C15_Declarations ==
    /\ \A k \in 1..Len(FunctionDecls) :
          LET e == FunctionDecls[k]
              sym == an.heap[e.ref]
          IN /\ RecordedIn(e.enclosing, e.name, e.ref)
             /\ ~e.in_class =>
                   /\ sym.kind = "func" /\ sym.owner = "None"
                   /\ e.opened.kind = "function" /\ e.opened.name = e.name
             /\ e.member =>
                   /\ sym.kind = "method" /\ sym.owner = e.class
                   /\ e.opened.kind = "method" /\ e.opened.name = e.name
    /\ \A k \in 1..Len(ClassDecls) :
          LET e == ClassDecls[k]
              sym == an.heap[e.ref]
          IN /\ RecordedIn(e.enclosing, e.name, e.ref)
             /\ sym.kind = "class"
             /\ sym.value = <<"methods">> \o MemberFunctionNames(e.members)

\* A run with a function outside any class and a class with two member
\* functions
C15_Witness ==
    /\ \E k \in 1..Len(FunctionDecls) : ~FunctionDecls[k].in_class
    /\ \E k \in 1..Len(FunctionDecls) : FunctionDecls[k].member
    /\ \E k \in 1..Len(ClassDecls) : Len(MemberFunctionNames(ClassDecls[k].members)) = 2

\* The returns in the body of a function, in the order of the traversal
Returns == SelectSeq(an.log, LAMBDA e : e.ev = "Return" /\ e.fn.ref # 0)

\* C19: every return statement in the body of a function F, not inside a
\* nested function, is checked against F: the first return of known type
\* sets the return type of F, a later return of a known incompatible type
\* records exactly one mismatch diagnostic naming F, and the return type of
\* F never changes once set; this also holds for the returns that follow a
\* nested function declaration in the body of F.
C19_ReturnsChecked ==
    /\ \A k \in 1..Len(Returns) :
          LET e == Returns[k] IN
          IF e.before = "None"
          THEN e.after = e.rtype /\ e.errs = <<>>
          ELSE /\ e.after = e.before
               /\ e.errs = IF e.rtype # "None" /\ ~type_compatible(e.before, e.rtype)
                           THEN <<<<"Return type mismatch", e.fn.name>>>>
                           ELSE <<>>
    /\ \A k, l \in 1..Len(Returns) :
          (k < l /\ Returns[k].fn.ref = Returns[l].fn.ref /\ Returns[k].after # "None")
              => Returns[l].before = Returns[k].after

\* The calls to declared functions and their arguments, in the order of the
\* traversal
Calls == SelectSeq(an.log, LAMBDA e : e.ev = "Call")

Args == SelectSeq(an.log, LAMBDA e : e.ev = "Arg" /\ e.has)

\* C20: over the calls to a declared function, in traversal order: a
\* parameter of unknown type takes the type of the first argument of known
\* type passed in its position, without a diagnostic; once known, the type of
\* a parameter never changes, and every later argument of a known
\* incompatible type in that position records exactly one type mismatch
\* diagnostic; a call whose number of arguments differs from the length of a
\* non-empty parameter list records exactly one arity diagnostic.
C20_CallInference ==
    /\ \A k \in 1..Len(Args) :
          LET e == Args[k] IN
          IF e.before = "None"
          THEN e.after = e.at /\ e.errs = <<>>
          ELSE /\ e.after = e.before
               /\ e.errs = IF e.at # "None" /\ ~type_compatible(e.before, e.at)
                           THEN <<<<"Argument type mismatch", e.name, ToString(e.i)>>>>
                           ELSE <<>>
    /\ \A k, l \in 1..Len(Args) :
          (k < l /\ Args[k].ref = Args[l].ref /\ Args[k].i = Args[l].i
                 /\ Args[k].after # "None")
              => Args[l].before = Args[k].after
    /\ \A k \in 1..Len(Calls) :
          LET e == Calls[k] IN
          e.errs = IF e.nparams > 0 /\ e.nparams # e.nargs
                   THEN <<<<"Function expects args", e.name>>>>
                   ELSE <<>>

\* ===========================================================================
\* PhpLexer on characters (lexer_php_reducido.py): the rules that apply to
\* the characters below, in the order the lexer tries them
\* ===========================================================================

MaxChars == 4

Letters == {"a", "_"}

Digits == {"1"}

Blank == {" ", "\t"}

Space == Blank \cup {"\r", "\n"}

\* t_ignore
t_ignore == {" ", "\t", "\r"}

Quotes == {"\"", "'"}

\* The rules given as strings, for the characters of the model
Punctuation == [c \in {"*", "/", ";", ".", "\\"} |->
                   CASE c = "*" -> "TIMES"
                     [] c = "/" -> "DIVIDE"
                     [] c = ";" -> "SEMICOLON"
                     [] c = "." -> "CONCAT"
                     [] c = "\\" -> "NAMESPACE_SEPARATOR"]

Min(S) == CHOOSE i \in S : \A j \in S : i <= j

\* The first index from p on whose character is not in the class, or the
\* index after the text
RunEnd(src, p, class) ==
    LET stops == {i \in p..Len(src) : src[i] \notin class} IN
    IF stops = {} THEN Len(src) + 1 ELSE Min(stops)

\* The first index from p on whose character is in the class, or the index
\* after the text
RunUntil(src, p, class) ==
    LET stops == {i \in p..Len(src) : src[i] \in class} IN
    IF stops = {} THEN Len(src) + 1 ELSE Min(stops)

At2(src, p, c) == p <= Len(src) /\ src[p] = c

In2(src, p, class) == p <= Len(src) /\ src[p] \in class

\* Each rule: the index after its match at p, or 0 when it does not match.
\* t_ID_INVALID  \d+[A-Za-z_][A-Za-z0-9_]*
match_ID_INVALID(src, p) ==
    LET d == RunEnd(src, p, Digits) IN
    IF d > p /\ In2(src, d, Letters) THEN RunEnd(src, d, Letters \cup Digits) ELSE 0

\* t_NUMBER  (?:\d+\.\d+|\d+)
match_NUMBER(src, p) ==
    LET d == RunEnd(src, p, Digits) IN
    IF d = p THEN 0
    ELSE IF At2(src, d, ".") /\ In2(src, d + 1, Digits) THEN RunEnd(src, d + 1, Digits)
    ELSE d

\* t_STRING  "(?:\\.|[^"\\])*" or the same between single quotes
RECURSIVE string_body(_, _, _)
string_body(src, p, quote) ==
    IF p > Len(src) THEN 0
    ELSE IF src[p] = quote THEN p + 1
    ELSE IF src[p] = "\\"
         THEN IF p + 1 <= Len(src) /\ src[p + 1] # "\n"
              THEN string_body(src, p + 2, quote)
              ELSE 0
    ELSE string_body(src, p + 1, quote)

match_STRING(src, p) == IF In2(src, p, Quotes) THEN string_body(src, p + 1, src[p]) ELSE 0

\* t_VARIABLE_INVALID  \$(?:[ \t]+[A-Za-z_][A-Za-z0-9_]*|[^A-Za-z_\s][^\s]*)
match_VARIABLE_INVALID(src, p) ==
    IF ~At2(src, p, "$") THEN 0
    ELSE LET b == RunEnd(src, p + 1, Blank) IN
         IF b > p + 1 /\ In2(src, b, Letters) THEN RunEnd(src, b, Letters \cup Digits)
         ELSE IF p + 1 <= Len(src) /\ src[p + 1] \notin Letters \cup Space
         THEN RunUntil(src, p + 1, Space)
         ELSE 0

\* t_VARIABLE  \$[A-Za-z_][A-Za-z0-9_]*
match_VARIABLE(src, p) ==
    IF At2(src, p, "$") /\ In2(src, p + 1, Letters)
    THEN RunEnd(src, p + 1, Letters \cup Digits)
    ELSE 0

\* t_ID  [A-Za-z_][A-Za-z0-9_]*
match_ID(src, p) == IF In2(src, p, Letters) THEN RunEnd(src, p, Letters \cup Digits) ELSE 0

\* t_COMMENT_BLOCK  /\*(.|\n)*?\*/
match_COMMENT_BLOCK(src, p) ==
    IF ~(At2(src, p, "/") /\ At2(src, p + 1, "*")) THEN 0
    ELSE LET ends == {i \in (p + 2)..(Len(src) - 1) : src[i] = "*" /\ src[i + 1] = "/"} IN
         IF ends = {} THEN 0 ELSE Min(ends) + 2

\* t_COMMENT_LINE  //[^\n]*
match_COMMENT_LINE(src, p) ==
    IF At2(src, p, "/") /\ At2(src, p + 1, "/") THEN RunUntil(src, p + 2, {"\n"}) ELSE 0

\* t_COMMENT_HASH  \#[^\n]*
match_COMMENT_HASH(src, p) ==
    IF At2(src, p, "#") THEN RunUntil(src, p + 1, {"\n"}) ELSE 0

\* t_newline  \n+
match_newline(src, p) == IF At2(src, p, "\n") THEN RunEnd(src, p, {"\n"}) ELSE 0

\* str.count('\n') of the text from p up to q
CountNewlines(src, p, q) == Cardinality({i \in p..(q - 1) : src[i] = "\n"})

\* The rules given as functions, in the order of their definition
Rules == <<"ID_INVALID", "NUMBER", "STRING", "VARIABLE_INVALID", "VARIABLE", "ID",
           "COMMENT_BLOCK", "COMMENT_LINE", "COMMENT_HASH", "newline">>

match(rule, src, p) ==
    CASE rule = "ID_INVALID" -> match_ID_INVALID(src, p)
      [] rule = "NUMBER" -> match_NUMBER(src, p)
      [] rule = "STRING" -> match_STRING(src, p)
      [] rule = "VARIABLE_INVALID" -> match_VARIABLE_INVALID(src, p)
      [] rule = "VARIABLE" -> match_VARIABLE(src, p)
      [] rule = "ID" -> match_ID(src, p)
      [] rule = "COMMENT_BLOCK" -> match_COMMENT_BLOCK(src, p)
      [] rule = "COMMENT_LINE" -> match_COMMENT_LINE(src, p)
      [] rule = "COMMENT_HASH" -> match_COMMENT_HASH(src, p)
      [] rule = "newline" -> match_newline(src, p)

LexToken(type, value, lineno, p) ==
    [type |-> type, value |-> value, lineno |-> lineno, lexpos |-> p - 1]

LexDiag(kind, text, lineno) == [kind |-> kind, text |-> text, lineno |-> lineno]

\* Mutant of t_error: two characters are skipped.
t_error_skip_two(src, p, lineno) ==
    [diags |-> <<LexDiag("caracter inesperado", <<src[p]>>, lineno)>>, next |-> p + 2]

\* t_error: the message names the first character of the rest, skip(1)
t_error(src, p, lineno) ==
    [diags |-> <<LexDiag("caracter inesperado", <<src[p]>>, lineno)>>, next |-> p + 1]

\* One round of the loop of lexer.token() at index p (lexpos p - 1)
lex_step(src, p, lineno) ==
    LET hits == {k \in 1..Len(Rules) : match(Rules[k], src, p) # 0}
        rule == IF hits = {} THEN "none" ELSE Rules[Min(hits)]
        q == IF hits = {} THEN p + 1 ELSE match(rule, src, p)
        text == SubSeq(src, p, q - 1)
        round(kind, next, line, tokens, diags) ==
            [kind |-> kind, rule |-> rule, from |-> p, next |-> next, lineno |-> line,
             tokens |-> tokens, diags |-> diags]
    IN
    IF src[p] \in t_ignore THEN round("ignore", p + 1, lineno, <<>>, <<>>)
    ELSE CASE rule \in {"NUMBER", "VARIABLE", "ID"} ->
                 round("token", q, lineno, <<LexToken(rule, text, lineno, p)>>, <<>>)
           [] rule = "STRING" ->
                 round("token", q, lineno,
                      <<LexToken(rule, SubSeq(src, p + 1, q - 2), lineno, p)>>, <<>>)
           [] rule = "ID_INVALID" ->
                 round("discard", q, lineno, <<>>,
                      <<LexDiag("identificador no valido", text, lineno)>>)
           [] rule = "VARIABLE_INVALID" ->
                 round("discard", q, lineno, <<>>,
                      <<LexDiag("identificador de variable no valido", text, lineno)>>)
           [] rule = "COMMENT_BLOCK" ->
                 round("discard", q, lineno + CountNewlines(src, p, q), <<>>, <<>>)
           [] rule \in {"COMMENT_LINE", "COMMENT_HASH"} ->
                 round("discard", q, lineno, <<>>, <<>>)
           [] rule = "newline" -> round("discard", q, lineno + (q - p), <<>>, <<>>)
           [] rule = "none" /\ src[p] \in DOMAIN Punctuation ->
                 round("token", p + 1, lineno,
                      <<LexToken(Punctuation[src[p]], <<src[p]>>, lineno, p)>>, <<>>)
           [] OTHER ->
                 LET e == t_error(src, p, lineno) IN
                 round("error", e.next, lineno, <<>>, e.diags)

\* The loop of tokenize over lexer.token(), from index p with line counter
\* lineno: the tokens, the messages, the rounds and the final counters
RECURSIVE scan(_, _, _, _)

\* The rest of the loop once the round s is over
scan_from(src, acc, s) ==
    scan(src, s.next, s.lineno,
         [tokens |-> acc.tokens \o s.tokens, diags |-> acc.diags \o s.diags,
          steps |-> Append(acc.steps, s)])

scan(src, p, lineno, acc) ==
    IF p > Len(src)
    THEN [tokens |-> acc.tokens, diags |-> acc.diags, steps |-> acc.steps,
          lineno |-> lineno, lexpos |-> p - 1]
    ELSE scan_from(src, acc, lex_step(src, p, lineno))

NoTokens == [tokens |-> <<>>, diags |-> <<>>, steps |-> <<>>]

\* The lexer l once the loop over data has ended with r
PhpLexer_after(l, data, r) ==
    [lineno |-> r.lineno, lexpos |-> r.lexpos, data |-> data, calls |-> l.calls + 1,
     tokens |-> r.tokens, diags |-> r.diags, steps |-> r.steps,
     first_tokens |-> IF l.calls = 0 THEN r.tokens ELSE l.first_tokens,
     first_data |-> IF l.calls = 0 THEN data ELSE l.first_data]

\* tokenize(data) on the lexer l: lexer.input(data) restarts the position,
\* not the line counter
tokenize_on(l, data) == PhpLexer_after(l, data, scan(data, 1, l.lineno, NoTokens))

\* ---------------------------------------------------------------- the texts
Alphabet == {"a", "$", "\n", "@", "\"", "/", "*"}

RECURSIVE Texts(_)
Texts(n) ==
    IF n = 0 THEN {<<>>}
    ELSE LET shorter == Texts(n - 1) IN
         shorter \cup {Append(t, c) : t \in {u \in shorter : Len(u) = n - 1}, c \in Alphabet}

SampleTexts ==
    {<<"/", "*", "\n", "*", "/", "a">>,
     <<"$", "a", " ", "@", " ", "$", "a">>,
     <<"1", "a", "\n", "$", " ", "a", "\n", ";">>,
     <<"\"", "a", "\n", "\"", "\n", "$", "a">>,
     <<"1", "\t", "#", "a", "\n", "/", "/", "\n", "a">>}

LexSources == Texts(MaxChars) \cup SampleTexts

LexUnchanged ==
    UNCHANGED <<scopes, scopes_meta, closed_scopes, next_scope_id, tcall, declLog, tprev,
                cur, th, printed, cres, an>>

\* list(lexer.tokenize(data)) on the new PhpLexer
Tokenize(data) ==
    /\ lx.calls = 0
    /\ lx' = tokenize_on(lx, data)
    /\ LexUnchanged

\* list(lexer.tokenize(data)) again, on the same PhpLexer and the same text
TokenizeAgain ==
    /\ lx.calls = 1
    /\ lx' = tokenize_on(lx, lx.data)
    /\ LexUnchanged

\* The texts a call can be given: the new lexer is given any of them
LexInputs == IF lx.calls = 0 THEN LexSources ELSE {}

NextLex ==
    \/ \E data \in LexInputs : Tokenize(data)
    \/ TokenizeAgain

SpecLex == TableInit /\ [][NextLex]_vars

\* ===========================================================================
\* Properties of PhpLexer.tokenize
\* ===========================================================================

\* The (kind, value, line) of each token
Triples(tokens) ==
    [i \in 1..Len(tokens) |-> <<tokens[i].type, tokens[i].value, tokens[i].lineno>>]

\* C16: tokenizing the same text twice gives the same sequence of (kind,
\* value, line): a second new PhpLexer gives what the first gave, and the
\* second tokenize call on one PhpLexer gives what its first call gave, as a
\* call that starts again at position 0 and line 1 does.
C16_SameTwice ==
    /\ lx.calls >= 1 =>
           Triples(tokenize_on(PhpLexer__post_init__, lx.first_data).tokens)
               = Triples(lx.first_tokens)
    /\ lx.calls = 2 => Triples(lx.tokens) = Triples(lx.first_tokens)

\* No rule of the lexer matches at index p of src, and src[p] is not ignored
NoRuleAt(src, p) ==
    /\ src[p] \notin t_ignore
    /\ \A k \in 1..Len(Rules) : match(Rules[k], src, p) = 0
    /\ src[p] \notin DOMAIN Punctuation

\* The tokens of the first k rounds
RECURSIVE StepTokens(_, _)
StepTokens(steps, k) ==
    IF k = 0 THEN <<>> ELSE StepTokens(steps, k - 1) \o steps[k].tokens

\* The tokens, found dpos characters and dline lines further
Shifted(tokens, dpos, dline) ==
    [i \in 1..Len(tokens) |->
        [tokens[i] EXCEPT !.lexpos = @ + dpos, !.lineno = @ + dline]]

\* The rounds of the last call that met a character no rule matches
ErrorRounds == {k \in 1..Len(lx.steps) : NoRuleAt(lx.data, lx.steps[k].from)}

\* C17: a character at which no rule matches gives exactly one diagnostic,
\* which names that character, moves the position on by exactly one character
\* and gives no token; the tokens found before it stay, and the text after it
\* is tokenized as a scan started there tokenizes it; the position grows at
\* every round and the call ends at the end of the text.
C17_ErrorRecovery ==
    lx.calls >= 1 =>
        /\ lx.lexpos = Len(lx.data)
        /\ \A k \in 1..Len(lx.steps) :
              /\ lx.steps[k].next > lx.steps[k].from
              /\ lx.steps[k].from = IF k = 1 THEN 1 ELSE lx.steps[k - 1].next
        /\ \A k \in ErrorRounds :
              /\ lx.steps[k].diags =
                     <<LexDiag("caracter inesperado", <<lx.data[lx.steps[k].from]>>,
                               lx.steps[k].lineno)>>
              /\ lx.steps[k].next = lx.steps[k].from + 1
              /\ lx.steps[k].tokens = <<>>
              /\ lx.tokens =
                     StepTokens(lx.steps, k - 1)
                     \o Shifted(scan(SubSeq(lx.data, lx.steps[k].from + 1, Len(lx.data)),
                                     1, 1, NoTokens).tokens,
                                lx.steps[k].from, lx.steps[k].lineno - 1)
        /\ Len(SelectSeq(lx.diags, LAMBDA d : d.kind = "caracter inesperado"))
               = Cardinality(ErrorRounds)

\* `$a @ $a` was tokenized: the two variables, and one diagnostic for `@`
C17_Witness ==
    /\ lx.calls = 1
    /\ lx.data = <<"$", "a", " ", "@", " ", "$", "a">>
    /\ ErrorRounds # {}
    /\ Len(lx.tokens) = 2
    /\ \A i \in 1..2 : lx.tokens[i].type = "VARIABLE" /\ lx.tokens[i].value = <<"$", "a">>
    /\ Len(lx.diags) = 1 /\ lx.diags[1].text = <<"@">>

\* C18: after the first call on a new PhpLexer, the line of every token is 1
\* plus the number of newline characters of the text before the first
\* character of the token, wherever those newlines stand: between tokens, in
\* a block comment, in a quoted string, or after a discarded span.
C18_TokenLines ==
    lx.calls = 1 =>
        \A i \in 1..Len(lx.tokens) :
            lx.tokens[i].lineno = 1 + CountNewlines(lx.data, 1, lx.tokens[i].lexpos + 1)

\* ===========================================================================
\* Semantic analysis of statements: declarations, assignments, blocks, loops
\* ===========================================================================

MaxStmts == 2

\* foreach ([1] as $b => $a) { $a = "s"; echo $b; $b = 1; }
Loop_kv ==
    ForeachStmt(ArrayLit(<<NumberLit("int")>>), <<"$b">>, "$a", Block(<<ExprStmt(Assign("$a", StringLit)), EchoStmt("$b"), VarDeclInit("$b", <<NumberLit("int")>>)>>))

\* foreach ($a as $a) { $a = 1.5; echo $a; }
Loop_self ==
    ForeachStmt(Var("$a"), <<>>, "$a", Block(<<VarDeclInit("$a", <<NumberLit("float")>>), EchoStmt("$a")>>))

\* foreach (1 as $a => $a) {}
Loop_same ==
    ForeachStmt(NumberLit("int"), <<"$a">>, "$a", Block(<<>>))

\* function f($x = $u, $x) { return FOO; }
Decl_f_dup ==
    FunctionDecl("f", <<Param("$x", <<Var("$u")>>), Param("$x", <<>>)>>, Block(<<ReturnStmt(<<Name("FOO")>>)>>))

\* function f($x, $y = f(1, "s")) { return $x; }
Decl_f_two ==
    FunctionDecl("f", <<Param("$x", <<>>), Param("$y", <<Call("f", <<NumberLit("int"), StringLit>>)>>)>>, Block(<<ReturnStmt(<<Var("$x")>>)>>))

\* class C { function f($y = "s") { return 1; } }
Decl_C_f ==
    ClassDecl("C", <<FunctionDecl("f", <<Param("$y", <<StringLit>>)>>, Block(<<ReturnStmt(<<NumberLit("int")>>)>>))>>)

Statements ==
    {VarDeclStmt("$a"),
     VarDeclInit("$a", <<NumberLit("int")>>),
     VarDeclInit("$a", <<StringLit>>),
     VarDeclInit("$a", <<NumberLit("float")>>),
     VarDeclInit("$a", <<NullLit>>),
     VarDeclInit("$a", <<Name("FOO")>>),
     ExprStmt(Assign("$a", NumberLit("int"))),
     ExprStmt(Assign("$a", StringLit)),
     ExprStmt(Assign("$a", BoolLit)),
     ExprStmt(Assign("$a", NullLit)),
     ExprStmt(Assign("$a", Var("$b"))),
     ExprStmt(Assign("$a", Name("FOO"))),
     EchoStmt("$a"),
     Block(<<VarDeclInit("$a", <<NumberLit("int")>>)>>),
     Block(<<Block(<<VarDeclInit("$a", <<StringLit>>)>>), EchoStmt("$a")>>),
     IfStmt(BoolLit, Block(<<VarDeclInit("$a", <<NumberLit("float")>>)>>)),
     WhileStmt(Var("$a"), Block(<<VarDeclInit("$b", <<NumberLit("int")>>)>>)),
     ForStmt(BoolLit, Block(<<VarDeclInit("$a", <<NumberLit("int")>>), ExprStmt(Assign("$a", NullLit))>>)),
     Loop_kv,
     Loop_self,
     Loop_same,
     Decl_f_dup,
     Decl_f_two,
     Decl_C_f,
     VarDeclInit("$b", <<Call("f", <<NumberLit("int")>>)>>),
     ExprStmt(Call("f", <<Name("FOO")>>))}

RECURSIVE StatementSeqs(_)
StatementSeqs(n) ==
    IF n = 0 THEN {<<>>}
    ELSE LET shorter == StatementSeqs(n - 1) IN
         shorter \cup {Append(q, st) : q \in {r \in shorter : Len(r) = n - 1},
                                       st \in Statements}

\* Longer programs: a function and a method of the same name and a call, three
\* bindings of one variable, a read after a loop, reads after nested blocks
SampleStatements ==
    {<<Decl_f, Decl_C_f, VarDeclInit("$b", <<Call("f", <<NumberLit("int")>>)>>)>>,
     <<VarDeclInit("$a", <<NumberLit("int")>>), ExprStmt(Assign("$a", BoolLit)), ExprStmt(Assign("$a", NullLit))>>,
     <<VarDeclInit("$a", <<StringLit>>), Loop_kv, EchoStmt("$a")>>,
     <<Block(<<VarDeclInit("$a", <<NumberLit("int")>>), Block(<<VarDeclInit("$a", <<StringLit>>), VarDeclStmt("$b")>>)>>), EchoStmt("$a"), EchoStmt("$b")>>}

StatementPrograms == {Program(q) : q \in StatementSeqs(MaxStmts) \cup SampleStatements}

\* The programs a call can be given: any of them on the new analyzer
StatementInputs == IF an.runs = 0 THEN StatementPrograms ELSE {}

NextStmt == \E program \in StatementInputs : Analyze(program)

SpecStmt == TableInit /\ [][NextStmt]_vars

\* ---------------------------------------------------------------------------
\* Claims about statements (checked under SpecStmt)
\* ---------------------------------------------------------------------------

Assigns == SelectSeq(an.log, LAMBDA e : e.ev = "Assign")

\* The active scopes of env that bind the name
BindersIn(env, name) == {i \in 1..Len(env) : DictHas(env[i], name)}

\* The type of the symbol lookup gives for the name, the scopes being env
TypeIn(env, name) ==
    DictGet(env[CHOOSE i \in BindersIn(env, name) : \A j \in BindersIn(env, name) : j <= i],
            name)

\* The names of each scope of env
NamesIn(env) == [i \in 1..Len(env) |-> [j \in 1..Len(env[i]) |-> env[i][j].key]]

\* Compatible, as the claim defines it
Compatible(declared, actual) ==
    declared = actual \/ (declared = "float" /\ actual = "int") \/ actual = "null"

\* C21: an assignment to a variable that no active scope binds records
\* exactly one 'used before declaration' diagnostic, still analyzes the value
\* and creates no symbol; for a bound variable, a known type of the symbol
\* and a known, incompatible type of the value give exactly one mismatch
\* diagnostic and leave the type of the symbol as it was, and a symbol
\* without type adopts a known type of the value.
C21_Assign ==
    \A k \in 1..Len(Assigns) :
        LET e == Assigns[k] IN
        IF BindersIn(e.env, e.name) = {}
        THEN /\ e.own = <<<<"Variable used before declaration", e.name>>>>
             /\ e.visited
             /\ e.objects[1] = e.objects[2]
             /\ NamesIn(e.env_after) = NamesIn(e.env)
        ELSE LET before == TypeIn(e.env_value, e.name)
                 after == TypeIn(e.env_after, e.name)
             IN CASE before # "None" /\ e.vtype # "None" /\ ~Compatible(before, e.vtype) ->
                         /\ e.own = <<<<"Type mismatch assigning", e.name>>>>
                         /\ after = before
                  [] before = "None" /\ e.vtype # "None" -> e.own = <<>> /\ after = e.vtype
                  [] OTHER -> e.own = <<>> /\ after = before

\* `$a = 1.5; $a = 1`: an int was assigned to the float variable
C21_Witness ==
    /\ an.runs = 1
    /\ \E k \in 1..Len(Assigns) :
          /\ BindersIn(Assigns[k].env, "$a") # {}
          /\ TypeIn(Assigns[k].env_value, "$a") = "float"
          /\ Assigns[k].vtype = "int"
          /\ Assigns[k].own = <<>>

VarDecls == SelectSeq(an.log, LAMBDA e : e.ev = "VarDecl")

\* C22: a declaration statement for a name that an active scope already
\* binds, the current one or an enclosing one, creates no symbol and records
\* no diagnostic of its own, and leaves the existing symbol with the type of
\* the initializer and, for a literal initializer, with its value.
C22_Redeclaration ==
    \A k \in 1..Len(VarDecls) :
        LET e == VarDecls[k] IN
        BindersIn(e.env, e.name) # {} =>
            /\ e.objects[1] = e.objects[2]
            /\ NamesIn(e.env_after) = NamesIn(e.env)
            /\ e.errs = <<>>
            /\ e.init # <<>> /\ e.init_type # "None" =>
                   TypeIn(e.env_after, e.name) = e.init_type
            /\ e.init # <<>> /\ e.init[1].node \in {"NumberLit", "StringLit", "BoolLit"} =>
                   e.value_after = <<e.init[1].name>>

\* The id of the innermost scope of the chain that is not a block: the
\* function, method or class the statement stands in, or the top level
Frame(chain) ==
    LET outer == {i \in 1..Len(chain) : chain[i].kind # "block"} IN
    chain[CHOOSE i \in outer : \A j \in outer : j <= i].id

\* C23: a variable first declared by a declaration statement, be it inside
\* nested blocks, is still resolved by every later read in the same function
\* or at the same top level: such a read records no diagnostic.
C23_ScopeWide ==
    \A i, j \in 1..Len(an.log) :
        LET d == an.log[i]
            r == an.log[j]
        IN (/\ i < j
            /\ d.ev = "VarDecl" /\ r.ev = "Var"
            /\ BindersIn(d.env, d.name) = {}
            /\ r.name = d.name
            /\ Frame(r.chain) = Frame(d.chain)) => r.errs = <<>>

Literals == {"NumberLit", "StringLit", "BoolLit", "NullLit"}

\* The value a literal node stands for; <<"None">> is null
LiteralOf(e) == IF e.node = "NullLit" THEN <<"None">> ELSE <<e.name>>

\* The declaration statements with an initializer and the assignments to a
\* bound variable, each with its right-hand side
Bindings ==
    SelectSeq([i \in 1..Len(an.log) |->
                  IF an.log[i].ev = "VarDecl" /\ an.log[i].init # <<>>
                  THEN [ev |-> "binding", rhs |-> an.log[i].init[1],
                        value_before |-> an.log[i].value_before,
                        value_after |-> an.log[i].value_after]
                  ELSE IF an.log[i].ev = "Assign" /\ an.log[i].sym # 0
                  THEN [ev |-> "binding", rhs |-> an.log[i].value,
                        value_before |-> an.log[i].value_before,
                        value_after |-> an.log[i].value_after]
                  ELSE [ev |-> "other"]],
              LAMBDA e : e.ev = "binding")

\* C24: after each declaration statement or assignment to a variable, the
\* value of the symbol is the literal of the right-hand side when that is a
\* number, string, boolean or null literal, and the value it had before when
\* it is not: the value is that of the most recent literal, null included.
C24_LastLiteral ==
    \A k \in 1..Len(Bindings) :
        LET e == Bindings[k] IN
        IF e.rhs.node \in Literals
        THEN e.value_after = LiteralOf(e.rhs)
        ELSE e.value_after = e.value_before

Foreachs == SelectSeq(an.log, LAMBDA e : e.ev = "Foreach")

\* The key and the value name of the foreach e, as a sequence of 1 or 2 names
LoopNames(e) == e.key \o <<e.name>>

\* The entries of a pair <<for the key, for the value>> that the foreach e has
LoopPair(e, pair) == IF e.key = <<>> THEN <<pair[2]>> ELSE pair

\* C25: a foreach records one diagnostic of its own unless the type of the
\* iterable is array, and none when it is; it opens one block scope where the
\* key, when present, and the value name are bound to new variable symbols
\* without type, also when an outer symbol has the name; until the body ends
\* lookup gives those symbols, the outer symbols keep their type and value,
\* and after the statement the scope is archived and lookup gives the outer
\* symbols, or nothing, as before.
C25_Foreach ==
    \A k \in 1..Len(Foreachs) :
        LET e == Foreachs[k] IN
        /\ e.own = IF e.itype = "array" THEN <<>>
                   ELSE <<<<"Foreach expects an array", e.itype>>>>
        /\ e.scope.kind = "block"
        /\ e.depth = <<e.depth[1], e.depth[1] + 1, e.depth[1]>>
        /\ \A i \in 1..Len(LoopNames(e)) :
              LET name == LoopNames(e)[i]
                  new == LoopPair(e, e.new)[i]
              IN /\ LoopPair(e, e.inner)[i] > e.objects[1]
                 /\ LoopPair(e, e.inner)[i] # LoopPair(e, e.outer)[i]
                 /\ new # <<>>
                 /\ new[1].name = name /\ new[1].kind = "var" /\ new[1].type = "None"
                 /\ new[1].value = <<"None">>
        /\ e.inner_end = e.inner
        /\ e.outer_after = e.outer_before
        /\ e.after = e.outer
        /\ e.archived = e.scope

\* `$a = 1; foreach ([1] as $b => $a) { $a = "s"; echo $b; $b = 1; }`: the
\* string went to the loop's `$a`, the outer `$a` is an int as before
C25_Witness ==
    /\ an.runs = 1
    /\ an.errors = <<>>
    /\ \E k \in 1..Len(Foreachs) :
          /\ Foreachs[k].itype = "array"
          /\ Foreachs[k].key = <<"$b">>
          /\ Foreachs[k].outer[2] # 0
          /\ Foreachs[k].outer_after[2][1].type = "int"
    /\ \E k \in 1..Len(Assigns) :
          /\ Assigns[k].name = "$a"
          /\ TypeIn(Assigns[k].env_value, "$a") = "None"
          /\ TypeIn(Assigns[k].env_after, "$a") = "string"

Defaults == SelectSeq(an.log, LAMBDA e : e.ev = "Default")

\* The type self.visit returned for the default of the i-th parameter of the
\* function object ref, None for a parameter without default
DefaultType(ref, i) ==
    LET ds == SelectSeq(Defaults, LAMBDA d : d.ref = ref /\ d.i = i) IN
    IF ds = <<>> THEN "None" ELSE ds[1].after

\* The positions of params whose name repeats that of an earlier position
Repeated(params) ==
    {i \in 1..Len(params) : \E j \in 1..(i - 1) : params[j].name = params[i].name}

\* C26: a function declaration makes one parameter symbol per parameter,
\* typed by the inferred type of the default and untyped without default,
\* binds the first parameter of each name in the scope of the function,
\* records one "duplicated" diagnostic per parameter repeating an earlier
\* name, and the params of the signature have one entry per parameter, equal
\* to the type of that parameter's symbol when the body starts.
C26_Parameters ==
    \A k \in 1..Len(FunctionDecls) :
        LET e == FunctionDecls[k]
            params == e.node.params
        IN /\ Len(e.psyms) = Len(params)
           /\ Len(e.signature) = Len(params)
           /\ Len(e.dups) = Cardinality(Repeated(params))
           /\ \A i \in 1..Len(params) :
                 /\ e.param_types[i] = DefaultType(e.ref, i)
                 /\ params[i].default = <<>> => e.param_types[i] = "None"
                 /\ i \notin Repeated(params) =>
                       /\ DictHas(e.scope_syms, params[i].name)
                       /\ DictGet(e.scope_syms, params[i].name) = e.psyms[i]
                 /\ e.signature[i] = e.param_types[i]

\* The six type tags, and None for a type not known
TypeTags == {"None", "int", "float", "string", "bool", "array", "null"}

\* C27: the type of every variable and parameter symbol the analyzer has
\* made, and every params entry and the ret of every function signature, is
\* None or one of the six tags int, float, string, bool, array, null.
C27_StoredTypes ==
    \A ref \in 1..Len(an.heap) :
        LET sym == an.heap[ref] IN
        /\ sym.kind \in {"var", "param"} => sym.type \in TypeTags
        /\ sym.kind \in {"func", "method"} =>
              /\ sym.ret \in TypeTags
              /\ \A i \in 1..Len(sym.params) : sym.params[i] \in TypeTags

\* The calls of symtab.enter_scope and symtab.exit_scope, in the order made
ScopeEvents == SelectSeq(an.log, LAMBDA e : e.ev \in {"enter_scope", "exit_scope"})

Opened == SelectSeq(ScopeEvents, LAMBDA e : e.ev = "enter_scope")

Closed == SelectSeq(ScopeEvents, LAMBDA e : e.ev = "exit_scope")

\* The scopes opened and not yet closed after the first k scope events,
\* innermost last
RECURSIVE OpenScopes(_)
OpenScopes(k) ==
    IF k = 0 THEN <<>>
    ELSE IF ScopeEvents[k].ev = "enter_scope"
         THEN Append(OpenScopes(k - 1), ScopeEvents[k].scope)
         ELSE Front(OpenScopes(k - 1))

Blocks == SelectSeq(Visits, LAMBDA e : e.n.node = "Block")

\* C28: every exit_scope of a run closes the scope opened last among those
\* still open, with at least one scope besides the global one active; no scope
\* is opened twice; when analyze returns only the global scope is active and
\* the archive holds the opened scopes in the order they were closed, one for
\* each class and function that was declared, each block and each foreach.
C28_ScopesBalanced ==
    /\ \A k \in 1..Len(ScopeEvents) :
          ScopeEvents[k].ev = "exit_scope" =>
              /\ ScopeEvents[k].depth >= 2
              /\ OpenScopes(k - 1) # <<>>
              /\ Last(OpenScopes(k - 1)) = ScopeEvents[k].scope
    /\ \A i, j \in 1..Len(Opened) : i # j => Opened[i].scope.id # Opened[j].scope.id
    /\ an.runs = 1 =>
          /\ OpenScopes(Len(ScopeEvents)) = <<>>
          /\ Len(an.symtab.scopes) = 1
          /\ an.symtab.scopes[1].meta = [name |-> "global", kind |-> "global", id |-> 0]
          /\ Len(an.symtab.closed) = Len(Opened)
          /\ \A i \in 1..Len(Closed) : an.symtab.closed[i].meta = Closed[i].scope
          /\ Len(Opened) = Len(ClassDecls) + Len(FunctionDecls) + Len(Blocks) + Len(Foreachs)

\* `class C { function f($y = "s") { return 1; } }` and a foreach with a body:
\* class, method and block were nested three deep, five scopes are archived
C28_Witness ==
    /\ an.runs = 1
    /\ Len(an.symtab.closed) = 5
    /\ Foreachs # <<>>
    /\ \E k \in 1..Len(Opened) : Opened[k].depth = 4 /\ Opened[k].scope.kind = "block"
    /\ \E k \in 1..Len(Closed) : Closed[k].scope.kind = "class"

CallRets == SelectSeq(an.log, LAMBDA e : e.ev = "CallRet")

\* The declarations that made the function symbol ref (one, or none when the
\* symbol is no function of the program)
DeclsOf(ref) == SelectSeq(FunctionDecls, LAMBDA d : d.ref = ref)

Range(s) == {s[i] : i \in 1..Len(s)}

\* C29: a call resolved to the function symbol F fills in the type of no
\* parameter symbol but the one F's declaration made for that position, and
\* when it infers F's return type the body it scans is that of F's declaration
\* and the parameter types it reads are those of F's parameter symbols.
C29_OwnData ==
    /\ \A k \in 1..Len(Args) :
          LET a == Args[k] IN
          a.filled # 0 =>
              \A j \in 1..Len(DeclsOf(a.ref)) :
                  LET d == DeclsOf(a.ref)[j] IN
                  a.i <= Len(d.psyms) /\ a.filled = d.psyms[a.i]
    /\ \A k \in 1..Len(CallRets) :
          LET c == CallRets[k] IN
          c.scanned # <<>> =>
              \A j \in 1..Len(DeclsOf(c.ref)) :
                  LET d == DeclsOf(c.ref)[j] IN
                  /\ c.scanned = <<d.node>>
                  /\ Range(c.read) \subseteq Range(d.psyms)

DefaultVisits == SelectSeq(an.log, LAMBDA e : e.ev = "DefaultVisit")

\* The visits of the default of the i-th parameter of the function object ref
VisitsOfDefault(ref, i) == SelectSeq(DefaultVisits, LAMBDA e : e.ref = ref /\ e.i = i)

\* C30: the default expression of each parameter of each function declared
\* is visited exactly once, so what that visit records is in the diagnostics
\* once.
C30_DefaultOnce ==
    \A k \in 1..Len(FunctionDecls) :
        LET e == FunctionDecls[k] IN
        \A i \in 1..Len(e.node.params) :
            Len(VisitsOfDefault(e.ref, i)) = IF e.node.params[i].default = <<>> THEN 0 ELSE 1

====
